---- MODULE Spec2Model ----
(***************************************************************************)
(* Order placement, order status / payment transitions and the stores they *)
(* touch (carts, products, orders, notifications, users' device tokens),   *)
(* modelled from src/routes/orderRoutes.js, src/models/*.js,               *)
(* src/config/firebase.js, src/routes/authRoutes.js and the product routes.*)
(* Every `await` of a handler is a suspension point, so a handler is split *)
(* into one action per await: the action named after the handler is the    *)
(* request arriving with its first awaited call settling, and every        *)
(* awaited call can resolve or reject.  The status, payment, product and   *)
(* token requests under way are held in the slots of `adm`.  The Cart and  *)
(* User schemas are not part of the sources; cart documents are the        *)
(* (items, totalAmount) the order handler reads, with the version (__v)    *)
(* Mongoose keeps of a document.  The notification routes                  *)
(* (src/routes/notificationRoutes.js), the product routes, the handlers of *)
(* src/unnamed and the read routes are the actions of specifications of    *)
(* their own over the same stores.                                         *)
(***************************************************************************)
EXTENDS Integers, Sequences, FiniteSets, TLC

\* ------------------------------------------------------------------ bounds
MaxReqs == 2          \* POST /orders requests in one behaviour
MaxQty == 1           \* largest quantity on a cart line
MaxStock == 1         \* largest product stock
MaxUpdates == 1       \* status / payment / product / token requests in one behaviour
MaxNotifs == 2        \* Notification documents that exist at the start
MaxPage == 2          \* largest ?page= of GET /notifications
MaxLimit == 2         \* largest ?limit= of GET /notifications
MaxPrice == 2         \* largest price in a product request
MaxOrders == 3        \* Order documents that exist before the read requests
MaxInFlight == 2      \* status / payment / product / token requests under way together
MaxProductReqs == 3   \* product requests in one behaviour of SpecProduct
MaxStockReqs == 2     \* product requests in one behaviour of SpecStock

\* ------------------------------------------------------- program constants
NoteLimit == 100

Users == {"u1", "u2"}
Products == {"p1", "p2"}
CartPrices == {1}         \* unit prices captured on cart lines
Reqs == 1..MaxReqs
InFlight == 1..MaxInFlight
NoStock == -1         \* stands for the stock of a product without a document
NullPrice == -1       \* stands for a discountPrice of null
NoCart == [items |-> <<>>, totalAmount |-> -1, version |-> -1]
NoteLens == {NoteLimit, NoteLimit + 1}

validStatuses == {"pending", "processing", "shipped", "delivered", "cancelled"}
paymentStatuses == {"pending", "completed", "failed"}
\* request values tried: valid ones, one outside the enum, and a missing field
StatusInputs == {"shipped", "cancelled", "refunded", "undefined"}
PaymentInputs == {"completed", "refunded", "undefined"}

VARIABLES
    carts,          \* Cart collection: user -> cart document (NoCart when absent)
    stock,          \* Product.stock
    price,          \* Product.price (the live price)
    discountPrice,  \* Product.discountPrice (NullPrice: null)
    catalog,        \* the _ids of the Product documents that exist
    fcmToken,       \* User.fcmToken present?
    orders,         \* Order collection, _id = position
    notifications,  \* Notification collection, _id = position
    pc,             \* POST /orders: where each request is suspended
    reqUser,        \* POST /orders: req.user._id
    body,           \* POST /orders: req.body, recorded when the handler first reads it
    cart,           \* POST /orders: the cart document as loaded (local `cart`)
    idx,            \* POST /orders: position of the stock-check loop
    orderId,        \* POST /orders: order._id of the saved order (0: none)
    push,           \* POST /orders: the sendNotification call of the request
    resp,           \* POST /orders: the response sent
    stockAtCall,    \* POST /orders: the products populate() put on the cart's lines, by their stock (NoStock: null)
    notifId,        \* sendAndSaveNotification: _id of the Notification the call saved (0: none)
    sendArgs,       \* sendAndSaveNotification: the call's `type` and whether its `fcmToken` is truthy
    updates,        \* number of status / payment / product / token requests so far
    prodUpdates,    \* history variable: number of product updates and deletions so far
    last,           \* the latest response of a status, payment, product, token or notification request
    adm             \* the status, payment, product and token requests under way: slot -> request and the await it is at

vars == <<carts, stock, price, discountPrice, catalog, fcmToken, orders, notifications, pc, reqUser, body,
          cart, idx, orderId, push, resp, stockAtCall, notifId, sendArgs, updates, prodUpdates, last, adm>>

reqVars == <<pc, reqUser, body, cart, idx, orderId, push, resp, stockAtCall, notifId, sendArgs>>
storeVars == <<carts, stock, price, discountPrice, catalog, fcmToken, orders, notifications>>
adminVars == <<updates, prodUpdates, last, adm>>

\* ----------------------------------------------------------------- helpers
RECURSIVE SumLines(_)
SumLines(items) ==
    IF items = <<>> THEN 0
    ELSE Head(items).quantity * Head(items).price + SumLines(Tail(items))

CartLines == [product : Products, quantity : 1..MaxQty, price : CartPrices]

\* carts the cart routes can leave behind: at most one line per product,
\* totalAmount the sum of quantity * price; `version` is the document's __v
CartItemSeqs ==
    {<<>>} \cup {<<l>> : l \in CartLines}
           \cup {s \in {<<l1, l2>> : l1 \in CartLines, l2 \in CartLines} :
                    s[1].product # s[2].product}

CartDocs == {[items |-> s, totalAmount |-> SumLines(s), version |-> 0] : s \in CartItemSeqs}

NoSendArgs == [type |-> "undefined", fcmToken |-> FALSE]
NoResp == [code |-> 0, message |-> "none", arg |-> "none"]
\* response of an atomic handler, with the request it answers: the requester,
\* the :id of the path, the value in the body, and what became of the
\* handler's push and of its Notification record
NoLast == [op |-> "none", code |-> 0, message |-> "none", user |-> "none", id |-> 0,
           value |-> "none", push |-> "none", notif |-> "none"]
Answer(op, c, m, u, id, v) ==
    [op |-> op, code |-> c, message |-> m, user |-> u, id |-> id,
     value |-> v, push |-> "none", notif |-> "none"]
Resp(c, m, a) == [code |-> c, message |-> m, arg |-> a]

\* the request the admin slot holds: the handler (op), the await it is
\* suspended at, the requester, the :id of the path, the value in the body,
\* what became of its push so far, the product document as the handler will
\* save it, and the value of the path it assigns as findById loaded it
NoDoc == [price |-> 0, disc |-> NullPrice, stock |-> 0, modified |-> {}]
NoAdm == [op |-> "none", at |-> "none", user |-> "none", id |-> 0, value |-> "none",
          push |-> "none", doc |-> NoDoc, loaded |-> "none"]
Suspended(op, at, u, id, v) == [NoAdm EXCEPT !.op = op, !.at = at, !.user = u, !.id = id, !.value = v]


\* ------------------------------------------------------------------- Init
Init ==
    /\ carts \in [Users -> CartDocs \cup {NoCart}]
    /\ stock \in [Products -> 0..MaxStock]
    /\ price = [p \in Products |-> 2]
    /\ discountPrice = [p \in Products |-> NullPrice]
    /\ catalog = Products
    /\ fcmToken = [u \in Users |-> u = "u1"]   \* u1 has registered a device token
    /\ orders = <<>>
    /\ notifications = <<>>
    /\ pc = [r \in Reqs |-> "idle"]
    /\ reqUser = [r \in Reqs |-> "u1"]
    /\ body = [r \in Reqs |-> [paymentMethod |-> TRUE, shippingAddress |-> TRUE, noteLen |-> 0]]
    /\ cart = [r \in Reqs |-> NoCart]
    /\ idx = [r \in Reqs |-> 0]
    /\ orderId = [r \in Reqs |-> 0]
    /\ push = [r \in Reqs |-> "none"]
    /\ resp = [r \in Reqs |-> NoResp]
    /\ stockAtCall = [r \in Reqs |-> stock]
    /\ notifId = [r \in Reqs |-> 0]
    /\ sendArgs = [r \in Reqs |-> NoSendArgs]
    /\ updates = 0
    /\ prodUpdates = 0
    /\ last = NoLast
    /\ adm = [k \in InFlight |-> NoAdm]

\* ------------------------------------------------- POST /orders (placeOrder)
\* mutant: the length test is forgotten
isEmptyCart_NoLengthTest(c) == c = NoCart

\* `!cart || cart.items.length === 0`
isEmptyCart(c) == c = NoCart \/ Len(c.items) = 0

\* mutant: `<=` for `<`
insufficientStock_OffByOne(item) == stock[item.product] <= item.quantity

\* `product.stock < item.quantity`
insufficientStock(item) == stock[item.product] < item.quantity

\* mutant: the populated product's live price is copied
orderItems_LivePrice(c) ==
    [i \in 1..Len(c.items) |->
        [product |-> c.items[i].product,
         quantity |-> c.items[i].quantity,
         price |-> price[c.items[i].product]]]

\* cart.items.map(item => ({product, quantity, price: item.price}))
orderItems(c) ==
    [i \in 1..Len(c.items) |->
        [product |-> c.items[i].product,
         quantity |-> c.items[i].quantity,
         price |-> c.items[i].price]]

\* new Order({user, items, totalAmount: cart.totalAmount, ...}) with the schema defaults
newOrder(u, c) ==
    [user |-> u, items |-> orderItems(c), totalAmount |-> c.totalAmount,
     status |-> "pending", paymentStatus |-> "pending"]

\* cart.items = []; cart.totalAmount = 0 (on the request's copy)
clearedCart(c) == [c EXCEPT !.items = <<>>, !.totalAmount = 0]

\* the response ends the request
Finish(r, rsp) ==
    /\ pc' = [pc EXCEPT ![r] = "done"]
    /\ resp' = [resp EXCEPT ![r] = rsp]

\* populate() leaves null on a line whose product has no document, and
\* Product.findById resolves to null for it
productMissing(item) == item.product \notin catalog

\* line i of the cart request r loaded was left null by populate():
\* `item.product._id` throws a TypeError
unpopulated(r, i) == stockAtCall[r][cart[r].items[i].product] = NoStock

\* the request arrives and await Cart.findOne({user}).populate(...) resolves:
\* the empty-cart test, then the loop's first `item.product._id`, which
\* throws on a line populate() left null, then Product.findById is awaited
LoadCart(r, u) ==
    /\ pc[r] = "idle"
    /\ reqUser' = [reqUser EXCEPT ![r] = u]
    /\ stockAtCall' = [stockAtCall EXCEPT ![r] =
                           [p \in Products |-> IF p \in catalog THEN stock[p] ELSE NoStock]]
    /\ IF isEmptyCart(carts[u])
          THEN /\ Finish(r, Resp(400, "Cart is empty", "none"))
               /\ UNCHANGED <<cart, idx>>
          ELSE /\ cart' = [cart EXCEPT ![r] = carts[u]]
               /\ idx' = [idx EXCEPT ![r] = 1]
               /\ IF Len(carts[u].items) > 0 /\ productMissing(carts[u].items[1])
                     THEN Finish(r, Resp(500, "TypeError", "_id"))
                     ELSE /\ pc' = [pc EXCEPT ![r] = "check"]
                          /\ resp' = resp
    /\ UNCHANGED <<body, orderId, push, notifId, sendArgs>>
    /\ UNCHANGED storeVars
    /\ UNCHANGED adminVars

\* mutant: a line without a product is passed over (`item.product?._id`,
\* `product?.stock < item.quantity`, which is false on undefined)
CheckStock_PassedOver(r, b) ==
    /\ pc[r] = "check" /\ idx[r] \in 1..Len(cart[r].items)
    /\ LET item == cart[r].items[idx[r]] IN
         IF ~productMissing(item) /\ insufficientStock(item)
           THEN /\ Finish(r, Resp(400, "Insufficient stock for", item.product))
                /\ UNCHANGED <<idx, body>>
           ELSE IF idx[r] < Len(cart[r].items)
           THEN /\ idx' = [idx EXCEPT ![r] = idx[r] + 1]
                /\ UNCHANGED <<pc, resp, body>>
           ELSE /\ idx' = idx
                /\ body' = [body EXCEPT ![r] = b]
                /\ IF b.noteLen > NoteLimit   \* `note && note.length > 100`
                      THEN Finish(r, Resp(400, "Note cannot exceed 100 characters", "none"))
                      ELSE /\ pc' = [pc EXCEPT ![r] = "save"]
                           /\ resp' = resp
    /\ UNCHANGED <<reqUser, cart, orderId, push, stockAtCall, notifId, sendArgs>>
    /\ UNCHANGED storeVars
    /\ UNCHANGED adminVars

\* await Product.findById resolves for the line the loop is at: `product.stock`
\* throws on null, the stock is compared, and the handler runs on to its next
\* await.  That is the next line's findById, unless `item.product._id` throws
\* there; after the last line it is order.save(), unless the note test of
\* req.body (b) answers 400.  A TypeError lands in the outer catch (500).
CheckStock(r, b) ==
    /\ pc[r] = "check" /\ idx[r] \in 1..Len(cart[r].items)
    /\ LET item == cart[r].items[idx[r]] IN
         IF productMissing(item)
           THEN /\ Finish(r, Resp(500, "TypeError", "stock"))
                /\ UNCHANGED <<idx, body>>
           ELSE IF insufficientStock(item)
           THEN /\ Finish(r, Resp(400, "Insufficient stock for", item.product))
                /\ UNCHANGED <<idx, body>>
           ELSE IF idx[r] < Len(cart[r].items)
           THEN /\ idx' = [idx EXCEPT ![r] = idx[r] + 1]
                /\ body' = body
                /\ IF unpopulated(r, idx[r] + 1)
                      THEN Finish(r, Resp(500, "TypeError", "_id"))
                      ELSE UNCHANGED <<pc, resp>>
           ELSE /\ idx' = idx
                /\ body' = [body EXCEPT ![r] = b]
                /\ IF b.noteLen > NoteLimit   \* `note && note.length > 100`
                      THEN Finish(r, Resp(400, "Note cannot exceed 100 characters", "none"))
                      ELSE /\ pc' = [pc EXCEPT ![r] = "save"]
                           /\ resp' = resp
    /\ UNCHANGED <<reqUser, cart, orderId, push, stockAtCall, notifId, sendArgs>>
    /\ UNCHANGED storeVars
    /\ UNCHANGED adminVars

\* src/models/Order.js holds an unresolved merge conflict at shippingAddress
\* (32-47): on its HEAD side the path is a required String, on the other
\* side a group of optional strings.  Which side the deployed schema has is
\* not decided by the sources.
OrderSchemas == {"HEAD", "parent"}

\* the `required` validators save() runs on the new Order
validOrder(b, side) == b.paymentMethod /\ (side = "HEAD" => b.shippingAddress)

\* await order.save() settles: the schema's validators reject (outer catch,
\* 500) or the Order is stored; then the cart is cleared in memory and
\* cart.save() is awaited
SaveOrder(r, side) ==
    /\ pc[r] = "save"
    /\ IF ~validOrder(body[r], side)
          THEN /\ Finish(r, Resp(500, "validation failed", "none"))
               /\ UNCHANGED <<orders, orderId>>
          ELSE /\ orders' = Append(orders, newOrder(reqUser[r], cart[r]))
               /\ orderId' = [orderId EXCEPT ![r] = Len(orders) + 1]
               /\ pc' = [pc EXCEPT ![r] = "clear"]
               /\ resp' = resp
    /\ UNCHANGED <<reqUser, body, cart, idx, push, stockAtCall, notifId, sendArgs>>
    /\ UNCHANGED <<carts, stock, price, discountPrice, catalog, fcmToken, notifications>>
    /\ UNCHANGED adminVars

\* mutant: the cart is emptied while order.save() is still awaited
ClearCart_BeforeSave(r) ==
    /\ pc[r] \in {"save", "clear"}
    /\ IF carts[reqUser[r]].version = cart[r].version
          THEN /\ carts' = [carts EXCEPT ![reqUser[r]] =
                                [clearedCart(cart[r]) EXCEPT !.version = @ + 1]]
               /\ pc' = [pc EXCEPT ![r] = IF pc[r] = "clear" THEN "user" ELSE "save"]
               /\ resp' = resp
          ELSE /\ Finish(r, Resp(500, "store error", "VersionError"))
               /\ carts' = carts
    /\ UNCHANGED <<reqUser, body, cart, idx, orderId, push, stockAtCall, notifId, sendArgs>>
    /\ UNCHANGED <<stock, price, discountPrice, catalog, fcmToken, orders, notifications>>
    /\ UNCHANGED adminVars

\* await cart.save() settles, the store answering.  `cart.items = []` sets a
\* whole array, so save() sends {$set: {items, totalAmount}, $inc: {__v: 1}}
\* with the filter {_id, __v: the version loaded}: on a copy loaded before
\* another save of the cart the filter matches no document and save()
\* rejects with a VersionError, which the outer catch answers with 500 and
\* the error's message.
\* (models/Cart.js is not among the sources; the schema is taken with
\* Mongoose's default versionKey, which the product routes' select('-__v')
\* shows in use.)
ClearCart(r) ==
    /\ pc[r] = "clear"
    /\ IF carts[reqUser[r]].version = cart[r].version
          THEN /\ carts' = [carts EXCEPT ![reqUser[r]] =
                                [clearedCart(cart[r]) EXCEPT !.version = @ + 1]]
               /\ pc' = [pc EXCEPT ![r] = "user"]
               /\ resp' = resp
          ELSE /\ Finish(r, Resp(500, "store error", "VersionError"))
               /\ carts' = carts
    /\ UNCHANGED <<reqUser, body, cart, idx, orderId, push, stockAtCall, notifId, sendArgs>>
    /\ UNCHANGED <<stock, price, discountPrice, catalog, fcmToken, orders, notifications>>
    /\ UNCHANGED adminVars

\* await User.findById; `if (user && user.fcmToken)` starts sendNotification,
\* otherwise res.status(201).json(order)
FindUser(r) ==
    /\ pc[r] = "user"
    /\ IF fcmToken[reqUser[r]]
          THEN /\ pc' = [pc EXCEPT ![r] = "push"]
               /\ push' = [push EXCEPT ![r] = "sent"]
               /\ resp' = resp
          ELSE /\ Finish(r, Resp(201, "created", "none"))
               /\ push' = push
    /\ UNCHANGED <<reqUser, body, cart, idx, orderId, stockAtCall, notifId, sendArgs>>
    /\ UNCHANGED storeVars
    /\ UNCHANGED adminVars

\* mutant: the inner catch rethrows into the outer catch
onPushError_Rethrow(r) == Finish(r, Resp(500, "push error", "none"))

\* the inner catch: console.error, then fall through to the response
onPushError(r) == Finish(r, Resp(201, "created", "none"))

\* sendNotification settles (admin.messaging().send resolves or throws)
PushDone(r, ok) ==
    /\ pc[r] = "push"
    /\ push' = [push EXCEPT ![r] = IF ok THEN "delivered" ELSE "failed"]
    /\ IF ok THEN Finish(r, Resp(201, "created", "none")) ELSE onPushError(r)
    /\ UNCHANGED <<reqUser, body, cart, idx, orderId, stockAtCall, notifId, sendArgs>>
    /\ UNCHANGED storeVars
    /\ UNCHANGED adminVars

\* an awaited store call rejects (a failure of the store): the outer catch
\* answers 500 with error.message (arg: the await that rejected); the
\* rejected call writes nothing
AwaitRejects(r) ==
    /\ pc[r] \in {"check", "save", "clear", "user"}
    /\ Finish(r, Resp(500, "store error", pc[r]))
    /\ UNCHANGED <<reqUser, body, cart, idx, orderId, push, stockAtCall, notifId, sendArgs>>
    /\ UNCHANGED storeVars
    /\ UNCHANGED adminVars

\* Cart.findOne(...).populate(...) rejects: the request is answered 500 from
\* the outer catch and has read nothing
LoadCartRejects(r, u) ==
    /\ pc[r] = "idle"
    /\ reqUser' = [reqUser EXCEPT ![r] = u]
    /\ stockAtCall' = [stockAtCall EXCEPT ![r] =
                           [p \in Products |-> IF p \in catalog THEN stock[p] ELSE NoStock]]
    /\ Finish(r, Resp(500, "store error", "load"))
    /\ UNCHANGED <<body, cart, idx, orderId, push, notifId, sendArgs>>
    /\ UNCHANGED storeVars
    /\ UNCHANGED adminVars

\* ---------------------------------------------------------------------------
\* The status, payment, product and token handlers.  Each is split at its
\* awaits: the action named after the handler is the request arriving and its
\* first awaited call settling, and one action per later await follows.  One
\* such request at a time is under way, in `adm`; a handler that answers
\* leaves its answer in `last`.  The handlers do not count themselves: the
\* specifications bound the number of requests (Counted, ProductRequest).
AdmFrame == UNCHANGED reqVars

\* a request is let in while a slot is free, and takes the first free one
HasFreeSlot == \E k \in InFlight : adm[k].op = "none"
FreeSlot ==
    CHOOSE k \in InFlight : adm[k].op = "none" /\ \A j \in 1..(k - 1) : adm[j].op # "none"
\* the handler answers before its first await returns control: no slot taken
Answered(a) == last' = a /\ adm' = adm
\* the handler is suspended at its next await, as a says
Suspend(a) == adm' = [adm EXCEPT ![FreeSlot] = a] /\ last' = last
Resume(k, a) == adm' = [adm EXCEPT ![k] = a] /\ last' = last
\* the handler of slot k answers and the slot is free again
AnswerWith(k, a) == last' = a /\ adm' = [adm EXCEPT ![k] = NoAdm]
\* the answer of the handler in slot k
AdmAnswer(k, c, m) == Answer(adm[k].op, c, m, adm[k].user, adm[k].id, adm[k].value)

\* ------------------------------------------- PUT /orders/:id/status
\* mutant: the update document replaces the order instead of setting one path
withStatus_Overwrite(o, s) == [o EXCEPT !.status = s, !.items = <<>>, !.totalAmount = 0]

\* Order.findOneAndUpdate({_id, user}, {status}, {new: true})
withStatus(o, s) == [o EXCEPT !.status = s]

\* new Notification({user, title, message, type: 'order', data: {orderId, status}})
statusNotification(u, id, s) ==
    [user |-> u, type |-> "order", orderId |-> id, status |-> s, isRead |-> FALSE]

\* `if (!order) return res.status(400).json({message: 'Order not found'})`
statusNotFound(u, id, s) == Answer("status", 400, "Order not found", u, id, s)

\* mutant: a missing status passes the validation
invalidStatus_MissingPasses(s) == s \notin validStatuses \cup {"undefined"}

\* `!validStatuses.includes(status)`
invalidStatus(s) == s \notin validStatuses

\* the outer catch of the status handler
statusFailed(u, id, s) == Answer("status", 500, "Error updating order status", u, id, s)

\* res.json(order) after the two try/catch blocks: a is the request in the
\* slot, with what became of its push
statusUpdated(a, saveOk) ==
    [Answer("status", 200, "order", a.user, a.id, a.value) EXCEPT
        !.push = a.push,
        !.notif = IF saveOk THEN "saved" ELSE "failed"]

\* the request arrives: the status test, then
\* await Order.findOneAndUpdate({_id, user}, {status}) settles (ok: resolves)
UpdateStatus(u, id, s, ok) ==
    /\ HasFreeSlot
    /\ IF invalidStatus(s)
          THEN /\ Answered(Answer("status", 400, "Invalid status", u, id, s))
               /\ orders' = orders
          ELSE IF ~ok
          THEN /\ Answered(statusFailed(u, id, s))
               /\ orders' = orders
          ELSE IF id \in 1..Len(orders) /\ orders[id].user = u
          THEN /\ orders' = [orders EXCEPT ![id] = withStatus(orders[id], s)]
               /\ Suspend(Suspended("status", "user", u, id, s))
          ELSE /\ Answered(statusNotFound(u, id, s))
               /\ orders' = orders
    /\ UNCHANGED <<carts, stock, price, discountPrice, catalog, fcmToken, notifications>>
    /\ AdmFrame

\* await User.findById(req.user._id) settles; `if (user && user.fcmToken)`
\* starts sendNotification.  The call is outside the inner try blocks: its
\* rejection reaches the outer catch.
StatusFindUser(k, ok) ==
    /\ adm[k].op = "status" /\ adm[k].at = "user"
    /\ IF ~ok
          THEN AnswerWith(k, statusFailed(adm[k].user, adm[k].id, adm[k].value))
          ELSE Resume(k, IF fcmToken[adm[k].user]
                           THEN [adm[k] EXCEPT !.at = "push", !.push = "sent"]
                           ELSE [adm[k] EXCEPT !.at = "notify"])
    /\ UNCHANGED storeVars
    /\ AdmFrame

\* sendNotification settles; a rejection is caught and logged
StatusPushDone(k, ok) ==
    /\ adm[k].op = "status" /\ adm[k].at = "push"
    /\ Resume(k, [adm[k] EXCEPT !.at = "notify", !.push = IF ok THEN "delivered" ELSE "failed"])
    /\ UNCHANGED storeVars
    /\ AdmFrame

\* await notification.save() settles (a rejection is caught and logged),
\* then res.json(order)
StatusSaveNotification(k, saveOk) ==
    /\ adm[k].op = "status" /\ adm[k].at = "notify"
    /\ notifications' =
          IF saveOk THEN Append(notifications, statusNotification(adm[k].user, adm[k].id, adm[k].value))
                    ELSE notifications
    /\ AnswerWith(k, statusUpdated(adm[k], saveOk))
    /\ UNCHANGED <<carts, stock, price, discountPrice, catalog, fcmToken, orders>>
    /\ AdmFrame

\* ------------------------------------------- PUT /orders/:id/payment
\* order.paymentStatus = req.body.paymentStatus; a missing field unsets the path
withPaymentStatus(o, ps) ==
    [o EXCEPT !.paymentStatus = IF ps = "undefined" THEN "unset" ELSE ps]

\* the schema's enum validator of paymentStatus; it is not run on undefined
validPaymentStatus(ps) == ps \in paymentStatuses \cup {"undefined"}

\* the handler's catch: 400 with error.message
paymentFailed(u, id, ps, m) == Answer("payment", 400, m, u, id, ps)

\* the request arrives and await Order.findById(req.params.id) settles
UpdatePaymentStatus(u, id, ps, ok) ==
    /\ HasFreeSlot
    /\ IF ~ok
          THEN Answered(paymentFailed(u, id, ps, "store error"))
          ELSE IF id \notin 1..Len(orders)
          THEN Answered(Answer("payment", 404, "Order not found", u, id, ps))
          ELSE Suspend([Suspended("payment", "save", u, id, ps)
                           EXCEPT !.loaded = orders[id].paymentStatus])
    /\ UNCHANGED storeVars
    /\ AdmFrame

\* the assignment, then await order.save() settles: the validators run
\* first, then the path is written if the assignment modified it, that is,
\* changed the value the document was loaded with
PaymentSave(k, ok) ==
    /\ adm[k].op = "payment" /\ adm[k].at = "save"
    /\ IF ~validPaymentStatus(adm[k].value)
          THEN /\ AnswerWith(k, paymentFailed(adm[k].user, adm[k].id, adm[k].value, "validation failed"))
               /\ orders' = orders
          ELSE IF ~ok
          THEN /\ AnswerWith(k, paymentFailed(adm[k].user, adm[k].id, adm[k].value, "store error"))
               /\ orders' = orders
          ELSE /\ orders' = IF withPaymentStatus(orders[adm[k].id], adm[k].value).paymentStatus
                                    # adm[k].loaded
                              THEN [orders EXCEPT ![adm[k].id] =
                                       withPaymentStatus(orders[adm[k].id], adm[k].value)]
                              ELSE orders
               /\ Resume(k, [adm[k] EXCEPT !.at = "populate"])
    /\ UNCHANGED <<carts, stock, price, discountPrice, catalog, fcmToken, notifications>>
    /\ AdmFrame

\* await order.populate('items.product') settles, then res.json(updatedOrder)
PaymentPopulate(k, ok) ==
    /\ adm[k].op = "payment" /\ adm[k].at = "populate"
    /\ AnswerWith(k, IF ok THEN AdmAnswer(k, 200, "order")
                           ELSE paymentFailed(adm[k].user, adm[k].id, adm[k].value, "store error"))
    /\ UNCHANGED storeVars
    /\ AdmFrame

\* ------------------------------------------- POST /products, PUT /products/:id
\* req.body of the product routes: price, discountPrice and stock, each with
\* a flag for its presence in the body
ProductBodies(prices, discounts, stocks) ==
    [hasPrice : BOOLEAN, price : prices, hasDisc : BOOLEAN, disc : discounts,
     hasStock : BOOLEAN, stock : stocks]

\* `price` of the body is truthy
truthyPrice(b) == b.hasPrice /\ b.price # 0
\* `discountPrice` of the body is truthy
truthyDiscount(b) == b.hasDisc /\ b.disc # NullPrice /\ b.disc # 0

\* PUT's own test: `discountPrice && discountPrice >= (price || product.price)`
discountTooHigh(b, current) ==
    /\ truthyDiscount(b)
    /\ b.disc >= (IF truthyPrice(b) THEN b.price ELSE current)

\* POST's own test: `discountPrice && discountPrice >= price`; a comparison
\* with undefined is false
createDiscountTooHigh(b) == truthyDiscount(b) /\ b.hasPrice /\ b.disc >= b.price

\* the schema's validators of a path: price `min: 0`; discountPrice `min: 0`
\* and `value === null || value < this.price`
validPrice(pr) == pr >= 0
validDiscount(d, pr) == d = NullPrice \/ (d >= 0 /\ d < pr)

\* mutant: the schema's `min: 0` validator of stock is missing
validStock_NoMin(st) == TRUE

\* stock `min: 0`
validStock(st) == st >= 0

\* save() of a loaded document validates every path it loaded, modified or
\* not (validateModifiedOnly is off by default), on the document in memory
validProduct(d) ==
    /\ validStock(d.stock)
    /\ validPrice(d.price)
    /\ validDiscount(d.disc, d.price)

\* the catch of the product handlers: 400 with error.message
productFailed(op, p, m) == Answer(op, 400, m, "none", 0, p)

\* the paths an assignment marks modified: those given a value other than
\* the loaded one
modifiedPaths(old, new) ==
    {f \in {"price", "discountPrice", "stock"} :
        \/ f = "price" /\ new.price # old.price
        \/ f = "discountPrice" /\ new.disc # old.disc
        \/ f = "stock" /\ new.stock # old.stock}

\* the document of product p as findById loads it
loaded(p) == [price |-> price[p], disc |-> discountPrice[p], stock |-> stock[p], modified |-> {}]

\* PUT /products/:id arrives and await Product.findById settles: 404, the
\* discount test (400), then `if (price) product.price = price;
\* if (discountPrice !== undefined) product.discountPrice = discountPrice;
\* if (stock !== undefined) product.stock = stock`
UpdateProduct(p, b, ok) ==
    /\ HasFreeSlot
    /\ IF ~ok
          THEN Answered(productFailed("product", p, "store error"))
          ELSE IF p \notin catalog
          THEN Answered(Answer("product", 404, "Product not found", "none", 0, p))
          ELSE IF discountTooHigh(b, price[p])
          THEN Answered(productFailed("product", p, "Discount price must be less than regular price"))
          ELSE LET d == [price |-> IF truthyPrice(b) THEN b.price ELSE price[p],
                         disc |-> IF b.hasDisc THEN b.disc ELSE discountPrice[p],
                         stock |-> IF b.hasStock THEN b.stock ELSE stock[p]]
               IN  Suspend([Suspended("product", "save", "none", 0, p) EXCEPT
                               !.doc = [loaded(p) EXCEPT
                                           !.price = d.price, !.disc = d.disc, !.stock = d.stock,
                                           !.modified = modifiedPaths(loaded(p), d)]])
    /\ UNCHANGED storeVars
    /\ AdmFrame

\* PUT /products/:id of part_001 arrives and await Product.findById settles:
\* `product.price = req.body.price || product.price`, stock when it is in the
\* body; discountPrice is not read
OldUpdateProduct(p, b, ok) ==
    /\ HasFreeSlot
    /\ IF ~ok
          THEN Answered(productFailed("product", p, "store error"))
          ELSE IF p \notin catalog
          THEN Answered(Answer("product", 404, "Product not found", "none", 0, p))
          ELSE LET d == [price |-> IF truthyPrice(b) THEN b.price ELSE price[p],
                         disc |-> discountPrice[p],
                         stock |-> IF b.hasStock THEN b.stock ELSE stock[p]]
               IN  Suspend([Suspended("product", "save", "none", 0, p) EXCEPT
                               !.doc = [loaded(p) EXCEPT
                                           !.price = d.price, !.stock = d.stock,
                                           !.modified = modifiedPaths(loaded(p), d)]])
    /\ UNCHANGED storeVars
    /\ AdmFrame

\* await product.save() settles: the validators run on the document in
\* memory, then the modified paths are written; the save of a document that
\* was deleted meanwhile rejects (DocumentNotFoundError).  Every rejection is
\* caught: 400.
ProductSave(k, ok) ==
    /\ adm[k].op = "product" /\ adm[k].at = "save"
    /\ LET p == adm[k].value
           d == adm[k].doc
       IN  IF ~validProduct(d)
             THEN /\ AnswerWith(k, productFailed("product", p, "validation failed"))
                  /\ UNCHANGED <<stock, price, discountPrice>>
             ELSE IF ~ok
             THEN /\ AnswerWith(k, productFailed("product", p, "store error"))
                  /\ UNCHANGED <<stock, price, discountPrice>>
             ELSE IF p \notin catalog
             THEN /\ AnswerWith(k, productFailed("product", p, "No document found"))
                  /\ UNCHANGED <<stock, price, discountPrice>>
             ELSE /\ stock' = IF "stock" \in d.modified THEN [stock EXCEPT ![p] = d.stock] ELSE stock
                  /\ price' = IF "price" \in d.modified THEN [price EXCEPT ![p] = d.price] ELSE price
                  /\ discountPrice' = IF "discountPrice" \in d.modified
                                        THEN [discountPrice EXCEPT ![p] = d.disc] ELSE discountPrice
                  /\ AnswerWith(k, Answer("product", 200, "product", "none", 0, p))
    /\ UNCHANGED <<carts, catalog, fcmToken, orders, notifications>>
    /\ AdmFrame

\* ------------------------------------------- DELETE /products/:id
\* await Product.findByIdAndDelete(req.params.id) settles.  The _id of a
\* deleted product is not given to another product: its place keeps NoStock.
DeleteProduct(p, ok) ==
    /\ IF ~ok
          THEN /\ last' = Answer("delete-product", 500, "store error", "none", 0, p)
               /\ UNCHANGED <<catalog, stock>>
          ELSE IF p \in catalog
          THEN /\ catalog' = catalog \ {p}
               /\ stock' = [stock EXCEPT ![p] = NoStock]
               /\ last' = Answer("delete-product", 200, "Product deleted successfully", "none", 0, p)
          ELSE /\ UNCHANGED <<catalog, stock>>
               /\ last' = Answer("delete-product", 404, "Product not found", "none", 0, p)
    /\ adm' = adm
    /\ UNCHANGED <<carts, price, discountPrice, fcmToken, orders, notifications>>
    /\ AdmFrame

\* ------------------------------------------- DELETE /products/:id of part_001
\* the request arrives and await Product.findById(req.params.id) settles
\* (null: 404; a rejection: the catch's 500), then `product.remove()` is
\* called.  Document.prototype.remove exists in mongoose up to version 6 and
\* the sources name no version: without it (hasRemove false) the call throws
\* a TypeError at once, which the catch answers with 500.
OldDeleteProduct(p, ok, hasRemove) ==
    /\ HasFreeSlot
    /\ IF ~ok
          THEN Answered(Answer("old-delete", 500, "store error", "none", 0, p))
          ELSE IF p \notin catalog
          THEN Answered(Answer("old-delete", 404, "Product not found", "none", 0, p))
          ELSE IF ~hasRemove
          THEN Answered(Answer("old-delete", 500, "product.remove is not a function", "none", 0, p))
          ELSE Suspend(Suspended("old-delete", "remove", "none", 0, p))
    /\ UNCHANGED storeVars
    /\ AdmFrame

\* await product.remove() settles: the document is deleted if it is still
\* there, and the answer is 200 either way
OldProductRemove(k, ok) ==
    /\ adm[k].op = "old-delete" /\ adm[k].at = "remove"
    /\ IF ok
          THEN /\ catalog' = catalog \ {adm[k].value}
               /\ stock' = [stock EXCEPT ![adm[k].value] = NoStock]
               /\ AnswerWith(k, AdmAnswer(k, 200, "Product deleted successfully"))
          ELSE /\ UNCHANGED <<catalog, stock>>
               /\ AnswerWith(k, AdmAnswer(k, 500, "store error"))
    /\ UNCHANGED <<carts, price, discountPrice, fcmToken, orders, notifications>>
    /\ AdmFrame

\* ------------------------------------------- POST /auth/fcm-token
\* what User.findById(req.user._id) settles with
Lookups == {"user", "null", "rejects"}

\* the request arrives: `if (!fcmToken)` (400), then await User.findById
\* settles (null: 404; a rejection: the catch's 500)
SetFcmToken(u, hasToken, found) ==
    /\ HasFreeSlot
    /\ IF ~hasToken
          THEN Answered(Answer("fcm-token", 400, "FCM token is required", u, 0, "none"))
          ELSE IF found = "rejects"
          THEN Answered(Answer("fcm-token", 500, "Error updating FCM token", u, 0, "token"))
          ELSE IF found = "null"
          THEN Answered(Answer("fcm-token", 404, "User not found", u, 0, "token"))
          ELSE Suspend(Suspended("fcm-token", "save", u, 0, "token"))
    /\ UNCHANGED storeVars
    /\ AdmFrame

\* user.fcmToken = fcmToken; await user.save() settles
TokenSave(k, ok) ==
    /\ adm[k].op = "fcm-token" /\ adm[k].at = "save"
    /\ IF ok
          THEN /\ fcmToken' = [fcmToken EXCEPT ![adm[k].user] = TRUE]
               /\ AnswerWith(k, AdmAnswer(k, 200, "FCM token updated successfully"))
          ELSE /\ fcmToken' = fcmToken
               /\ AnswerWith(k, AdmAnswer(k, 500, "Error updating FCM token"))
    /\ UNCHANGED <<carts, stock, price, discountPrice, catalog, orders, notifications>>
    /\ AdmFrame

\* ------------------------------------------------------------------- Next
\* req.body of POST /orders: are paymentMethod and shippingAddress present,
\* and the note's length; the bodies tried have at most one thing wrong
Bodies ==
    {b \in [paymentMethod : BOOLEAN, shippingAddress : BOOLEAN, noteLen : NoteLens] :
        /\ (~b.paymentMethod => b.shippingAddress /\ b.noteLen <= NoteLimit)
        /\ (~b.shippingAddress => b.noteLen <= NoteLimit)}

\* a request of the handlers above arrives: Spec lets MaxUpdates of them
\* arrive in a behaviour
Counted(A) ==
    /\ updates < MaxUpdates
    /\ updates' = updates + 1
    /\ prodUpdates' = prodUpdates
    /\ A
\* the same for a request that writes products
ProductRequest(A) ==
    /\ updates < MaxUpdates
    /\ updates' = updates + 1
    /\ prodUpdates' = prodUpdates + 1
    /\ A
\* a step that is not counted: a later step of a request that has arrived,
\* or a request of a handler the specification does not bound
Uncounted(A) == UNCHANGED <<updates, prodUpdates>> /\ A

\* the bodies of Spec carry a shippingAddress: on them the two sides of
\* Order.js agree (SpecStatus tries the bodies without one)
AddressedBodies == {b \in Bodies : b.shippingAddress}

\* the steps of POST /orders, on requests with a body of `bodies`
PlaceOrder(bodies) ==
    \/ \E r \in Reqs, u \in Users : LoadCart(r, u)
    \/ \E r \in Reqs, u \in Users : LoadCartRejects(r, u)
    \/ \E r \in Reqs, b \in bodies : CheckStock(r, b)
    \/ \E r \in Reqs, side \in OrderSchemas : SaveOrder(r, side)
    \/ \E r \in Reqs : ClearCart(r)
    \/ \E r \in Reqs : FindUser(r)
    \/ \E r \in Reqs, ok \in BOOLEAN : PushDone(r, ok)
    \/ \E r \in Reqs : AwaitRejects(r)

\* POST /orders with the requests that change what it reads: product updates
\* (their bodies carry a stock or nothing) and deletions, and device tokens
Next ==
    \/ PlaceOrder(AddressedBodies)
    \/ \E p \in Products, ok \in BOOLEAN :
          \E b \in {x \in ProductBodies({0}, {NullPrice}, -1..MaxStock) : ~x.hasPrice /\ ~x.hasDisc} :
             ProductRequest(UpdateProduct(p, b, ok))
    \/ \E k \in InFlight, ok \in BOOLEAN : Uncounted(ProductSave(k, ok))
    \/ \E p \in Products, ok \in BOOLEAN : ProductRequest(DeleteProduct(p, ok))
    \/ \E u \in Users, hasToken \in BOOLEAN, found \in Lookups :
          Counted(SetFcmToken(u, hasToken, found))
    \/ \E k \in InFlight, ok \in BOOLEAN : Uncounted(TokenSave(k, ok))

Spec == Init /\ [][Next]_vars

\* ===========================================================================
\* The status and payment handlers with POST /orders as the maker of the
\* orders they change: every user has the same one-line cart or none, and
\* every product is in stock.
InitStatus ==
    /\ carts \in [Users -> {NoCart, [items |-> <<[product |-> "p1", quantity |-> 1, price |-> 1]>>,
                                     totalAmount |-> 1, version |-> 0]}]
    /\ stock = [p \in Products |-> 1]
    /\ price = [p \in Products |-> 2]
    /\ discountPrice = [p \in Products |-> NullPrice]
    /\ catalog = Products
    /\ fcmToken = [u \in Users |-> u = "u1"]
    /\ orders = <<>>
    /\ notifications = <<>>
    /\ pc = [r \in Reqs |-> "idle"]
    /\ reqUser = [r \in Reqs |-> "u1"]
    /\ body = [r \in Reqs |-> [paymentMethod |-> TRUE, shippingAddress |-> TRUE, noteLen |-> 0]]
    /\ cart = [r \in Reqs |-> NoCart]
    /\ idx = [r \in Reqs |-> 0]
    /\ orderId = [r \in Reqs |-> 0]
    /\ push = [r \in Reqs |-> "none"]
    /\ resp = [r \in Reqs |-> NoResp]
    /\ stockAtCall = [r \in Reqs |-> stock]
    /\ notifId = [r \in Reqs |-> 0]
    /\ sendArgs = [r \in Reqs |-> NoSendArgs]
    /\ updates = 0
    /\ prodUpdates = 0
    /\ last = NoLast
    /\ adm = [k \in InFlight |-> NoAdm]

NextStatus ==
    \/ PlaceOrder(Bodies)
    \/ \E u \in Users, id \in Reqs, s \in StatusInputs, ok \in BOOLEAN :
          Counted(UpdateStatus(u, id, s, ok))
    \/ \E k \in InFlight, ok \in BOOLEAN : Uncounted(StatusFindUser(k, ok))
    \/ \E k \in InFlight, ok \in BOOLEAN : Uncounted(StatusPushDone(k, ok))
    \/ \E k \in InFlight, ok \in BOOLEAN : Uncounted(StatusSaveNotification(k, ok))
    \/ \E u \in Users, id \in Reqs, ps \in PaymentInputs, ok \in BOOLEAN :
          Counted(UpdatePaymentStatus(u, id, ps, ok))
    \/ \E k \in InFlight, ok \in BOOLEAN : Uncounted(PaymentSave(k, ok))
    \/ \E k \in InFlight, ok \in BOOLEAN : Uncounted(PaymentPopulate(k, ok))

SpecStatus == InitStatus /\ [][NextStatus]_vars

\* What the runtime guarantees of a request of POST /orders: the store calls
\* it awaits settle (resolve, or reject: AwaitRejects) and the handler then
\* runs on to its next await.  Nothing makes admin.messaging().send() settle
\* (firebase.js:38 sets no timeout), so PushDone carries no fairness, and
\* neither do the arrivals of requests.
HandlerFairness ==
    \A r \in Reqs :
        /\ WF_vars(\E b \in AddressedBodies : CheckStock(r, b))
        /\ WF_vars(\E side \in OrderSchemas : SaveOrder(r, side))
        /\ WF_vars(ClearCart(r))
        /\ WF_vars(FindUser(r))

SpecLive == Init /\ [][Next]_vars /\ HandlerFairness

\* ===========================================================================
\* The product routes as a specification of their own: one product exists
\* with a price and a discountPrice the schema accepts, a second one can be
\* created, and no order request is under way.
\* ------------------------------------------- POST /products
\* a new Product with the schema's defaults (discountPrice null, stock 0)
newProduct(b, disc) ==
    [price |-> b.price, disc |-> disc, stock |-> IF b.hasStock THEN b.stock ELSE 0]

\* save() of a new document: `required` of price and every path's validators
validNewProduct(b, d) ==
    b.hasPrice /\ validPrice(d.price) /\ validDiscount(d.disc, d.price) /\ validStock(d.stock)

\* new Product(...) is stored under the _id p, which no product had before
created(p, d, op) ==
    /\ catalog' = catalog \cup {p}
    /\ price' = [price EXCEPT ![p] = d.price]
    /\ discountPrice' = [discountPrice EXCEPT ![p] = d.disc]
    /\ stock' = [stock EXCEPT ![p] = d.stock]
    /\ last' = Answer(op, 201, "product", "none", 0, p)

\* the discount test (400), new Product({...}), await save() settles; a
\* rejection is caught: 400
CreateProduct(p, b, ok) ==
    /\ p \notin catalog /\ stock[p] # NoStock
    /\ LET d == newProduct(b, IF b.hasDisc THEN b.disc ELSE NullPrice)
       IN  IF createDiscountTooHigh(b)
             THEN /\ last' = productFailed("create", p, "Discount price must be less than regular price")
                  /\ UNCHANGED <<stock, price, discountPrice, catalog>>
             ELSE IF ~validNewProduct(b, d)
             THEN /\ last' = productFailed("create", p, "validation failed")
                  /\ UNCHANGED <<stock, price, discountPrice, catalog>>
             ELSE IF ~ok
             THEN /\ last' = productFailed("create", p, "store error")
                  /\ UNCHANGED <<stock, price, discountPrice, catalog>>
             ELSE created(p, d, "create")
    /\ adm' = adm
    /\ UNCHANGED <<carts, fcmToken, orders, notifications>>
    /\ AdmFrame

\* POST /products of part_001: new Product({name, description, price,
\* category, stock, images}), await save() settles; discountPrice is not read
OldCreateProduct(p, b, ok) ==
    /\ p \notin catalog /\ stock[p] # NoStock
    /\ LET d == newProduct(b, NullPrice)
       IN  IF ~validNewProduct(b, d)
             THEN /\ last' = productFailed("create", p, "validation failed")
                  /\ UNCHANGED <<stock, price, discountPrice, catalog>>
             ELSE IF ~ok
             THEN /\ last' = productFailed("create", p, "store error")
                  /\ UNCHANGED <<stock, price, discountPrice, catalog>>
             ELSE created(p, d, "create")
    /\ adm' = adm
    /\ UNCHANGED <<carts, fcmToken, orders, notifications>>
    /\ AdmFrame

InitProduct ==
    /\ carts = [u \in Users |-> NoCart]
    /\ stock = [p \in Products |-> 0]
    /\ catalog = {"p1"}
    /\ \E pr \in 1..MaxPrice, d \in {NullPrice} \cup 0..MaxPrice :
          /\ validDiscount(d, pr)
          /\ price = [p \in Products |-> IF p = "p1" THEN pr ELSE 0]
          /\ discountPrice = [p \in Products |-> IF p = "p1" THEN d ELSE NullPrice]
    /\ fcmToken = [u \in Users |-> u = "u1"]
    /\ orders = <<>>
    /\ notifications = <<>>
    /\ pc = [r \in Reqs |-> "idle"]
    /\ reqUser = [r \in Reqs |-> "u1"]
    /\ body = [r \in Reqs |-> [paymentMethod |-> TRUE, shippingAddress |-> TRUE, noteLen |-> 0]]
    /\ cart = [r \in Reqs |-> NoCart]
    /\ idx = [r \in Reqs |-> 0]
    /\ orderId = [r \in Reqs |-> 0]
    /\ push = [r \in Reqs |-> "none"]
    /\ resp = [r \in Reqs |-> NoResp]
    /\ stockAtCall = [r \in Reqs |-> stock]
    /\ notifId = [r \in Reqs |-> 0]
    /\ sendArgs = [r \in Reqs |-> NoSendArgs]
    /\ updates = 0
    /\ prodUpdates = 0
    /\ last = NoLast
    /\ adm = [k \in InFlight |-> NoAdm]

\* the bodies tried carry no stock; a field that is not in the body is
\* written with one value
PriceBodies ==
    {b \in ProductBodies(0..MaxPrice, {NullPrice} \cup 0..MaxPrice, {0}) :
        /\ ~b.hasPrice => b.price = 0
        /\ ~b.hasDisc => b.disc = NullPrice
        /\ ~b.hasStock}

\* a product request arrives: SpecProduct lets MaxProductReqs of them arrive
\* in a behaviour
Arrives(A) ==
    /\ prodUpdates < MaxProductReqs
    /\ prodUpdates' = prodUpdates + 1
    /\ updates' = updates
    /\ A

NextProduct ==
    \/ \E p \in Products, b \in PriceBodies, ok \in BOOLEAN : Arrives(CreateProduct(p, b, ok))
    \/ \E p \in Products, b \in PriceBodies, ok \in BOOLEAN : Arrives(OldCreateProduct(p, b, ok))
    \/ \E p \in Products, b \in PriceBodies, ok \in BOOLEAN : Arrives(UpdateProduct(p, b, ok))
    \/ \E p \in Products, b \in PriceBodies, ok \in BOOLEAN : Arrives(OldUpdateProduct(p, b, ok))
    \/ \E k \in InFlight, ok \in BOOLEAN : Uncounted(ProductSave(k, ok))
    \/ \E p \in Products, ok \in BOOLEAN : Arrives(DeleteProduct(p, ok))
    \/ \E p \in Products, ok \in BOOLEAN, hasRemove \in BOOLEAN :
          Arrives(OldDeleteProduct(p, ok, hasRemove))
    \/ \E k \in InFlight, ok \in BOOLEAN : Uncounted(OldProductRemove(k, ok))

SpecProduct == InitProduct /\ [][NextProduct]_vars

\* ===========================================================================
\* Order placement with the product routes that write stock, both the
\* creations and the updates: product p1 exists and is on the users' carts,
\* p2 can be created, and up to MaxStockReqs product requests arrive, which
\* can be under way together.
\* req.body of the product requests: a price (POST requires one), no
\* discountPrice, and a stock of -1..MaxStock or none
StockBodies ==
    {b \in ProductBodies({2}, {NullPrice}, -1..MaxStock) :
        b.hasPrice /\ ~b.hasDisc /\ (~b.hasStock => b.stock = 0)}

InitStock ==
    /\ carts = [u \in Users |-> [items |-> <<[product |-> "p1", quantity |-> 1, price |-> 1]>>,
                                 totalAmount |-> 1, version |-> 0]]
    /\ stock \in {[p \in Products |-> IF p = "p1" THEN st ELSE 0] : st \in 0..MaxStock}
    /\ price = [p \in Products |-> IF p = "p1" THEN 2 ELSE 0]
    /\ discountPrice = [p \in Products |-> NullPrice]
    /\ catalog = {"p1"}
    /\ fcmToken = [u \in Users |-> u = "u1"]
    /\ orders = <<>>
    /\ notifications = <<>>
    /\ pc = [r \in Reqs |-> "idle"]
    /\ reqUser = [r \in Reqs |-> "u1"]
    /\ body = [r \in Reqs |-> [paymentMethod |-> TRUE, shippingAddress |-> TRUE, noteLen |-> 0]]
    /\ cart = [r \in Reqs |-> NoCart]
    /\ idx = [r \in Reqs |-> 0]
    /\ orderId = [r \in Reqs |-> 0]
    /\ push = [r \in Reqs |-> "none"]
    /\ resp = [r \in Reqs |-> NoResp]
    /\ stockAtCall = [r \in Reqs |-> stock]
    /\ notifId = [r \in Reqs |-> 0]
    /\ sendArgs = [r \in Reqs |-> NoSendArgs]
    /\ updates = 0
    /\ prodUpdates = 0
    /\ last = NoLast
    /\ adm = [k \in InFlight |-> NoAdm]

NextStock ==
    \/ PlaceOrder(AddressedBodies)
    \/ \E p \in Products, b \in StockBodies, ok \in BOOLEAN :
          prodUpdates < MaxStockReqs /\ Arrives(CreateProduct(p, b, ok))
    \/ \E p \in Products, b \in StockBodies, ok \in BOOLEAN :
          prodUpdates < MaxStockReqs /\ Arrives(OldCreateProduct(p, b, ok))
    \/ \E p \in Products, b \in StockBodies, ok \in BOOLEAN :
          prodUpdates < MaxStockReqs /\ Arrives(UpdateProduct(p, b, ok))
    \/ \E p \in Products, b \in StockBodies, ok \in BOOLEAN :
          prodUpdates < MaxStockReqs /\ Arrives(OldUpdateProduct(p, b, ok))
    \/ \E k \in InFlight, ok \in BOOLEAN : Uncounted(ProductSave(k, ok))

SpecStock == InitStock /\ [][NextStock]_vars

\* ===========================================================================
\* The notification routes (routes/notificationRoutes.js), as a specification
\* of their own over the same stores: the Notification collection starts with
\* up to MaxNotifs documents made earlier, two orders exist whose status
\* updates add more, and no POST /orders request is under way.
\*
\* A Notification's _id is its position in `notifications` and its createdAt
\* is that position too (documents are appended in creation order); a deleted
\* document leaves DeletedNotification at its position so that the _ids of the
\* others stay what they were.  The documents made earlier are promotions;
\* 'order' documents come from the status handler.
SeedTypes == {"promotion"}
DeletedNotification ==
    [user |-> "none", type |-> "deleted", orderId |-> 0, status |-> "none", isRead |-> FALSE]
SeedNotifications ==
    [user : Users, type : SeedTypes, orderId : {0}, status : {"none"}, isRead : {FALSE}]
SeedSeqs == UNION {[1..n -> SeedNotifications] : n \in 0..MaxNotifs}
SeedLine == [product |-> "p1", quantity |-> 1, price |-> 1]
SeedCart == [items |-> <<SeedLine>>, totalAmount |-> 1, version |-> 0]

InitNotif ==
    /\ carts = [u \in Users |-> NoCart]
    /\ stock = [p \in Products |-> 1]
    /\ price = [p \in Products |-> 2]
    /\ discountPrice = [p \in Products |-> NullPrice]
    /\ catalog = Products
    /\ fcmToken = [u \in Users |-> u = "u1"]
    /\ orders = <<newOrder("u1", SeedCart), newOrder("u2", SeedCart)>>
    /\ notifications \in SeedSeqs
    /\ pc = [r \in Reqs |-> "idle"]
    /\ reqUser = [r \in Reqs |-> "u1"]
    /\ body = [r \in Reqs |-> [paymentMethod |-> TRUE, shippingAddress |-> TRUE, noteLen |-> 0]]
    /\ cart = [r \in Reqs |-> NoCart]
    /\ idx = [r \in Reqs |-> 0]
    /\ orderId = [r \in Reqs |-> 0]
    /\ push = [r \in Reqs |-> "none"]
    /\ resp = [r \in Reqs |-> NoResp]
    /\ stockAtCall = [r \in Reqs |-> stock]
    /\ notifId = [r \in Reqs |-> 0]
    /\ sendArgs = [r \in Reqs |-> NoSendArgs]
    /\ updates = 0
    /\ prodUpdates = 0
    /\ last = NoLast
    /\ adm = [k \in InFlight |-> NoAdm]

\* the slot of Reqs that holds the read request under way
ReadSlot == 1

\* ------------------------------------------- GET /notifications
\* req.query: unread and type as sent ("" when absent), startDate / endDate as
\* the createdAt they parse to (0 when absent), page and limit as numbers
Queries ==
    [unread : {"true", "false"}, type : {"", "order"},
     startDate : {0, 2}, endDate : {0, 2},
     page : 1..MaxPage, limit : 1..MaxLimit]

\* the `query` object built from req.query, applied to the document at _id i
matchesQuery(i, u, q) ==
    /\ notifications[i].user = u
    /\ q.unread = "true" => notifications[i].isRead = FALSE
    /\ q.type # "" => notifications[i].type = q.type
    /\ q.startDate # 0 => i >= q.startDate
    /\ q.endDate # 0 => i <= q.endDate

\* find(query).sort({createdAt: -1}): the matching _ids from position i down
RECURSIVE findSorted(_, _, _)
findSorted(u, q, i) ==
    IF i = 0 THEN <<>>
    ELSE (IF matchesQuery(i, u, q) THEN <<i>> ELSE <<>>) \o findSorted(u, q, i - 1)

\* mutant: the first page is skipped too
skipOf_WholePages(page, limit) == page * limit

\* `const skip = (page - 1) * limit`
skipOf(page, limit) == (page - 1) * limit

\* .skip(skip).limit(parseInt(limit)) on a sorted result
skipLimit(found, skip, limit) ==
    SubSeq(found, skip + 1, IF skip + limit < Len(found) THEN skip + limit ELSE Len(found))

\* Math.ceil(total / limit), limit >= 1
ceilDiv(total, limit) == (total + limit - 1) \div limit

\* countDocuments({user, isRead: false})
countUnread(u) ==
    Cardinality({i \in 1..Len(notifications) :
                    notifications[i].user = u /\ notifications[i].isRead = FALSE})

\* what the list handlers leave alone
ReadFrame == UNCHANGED <<body, cart, idx, orderId, push, stockAtCall, notifId, sendArgs>>
                /\ UNCHANGED storeVars /\ UNCHANGED adminVars

\* the three queries of Promise.all([find, countDocuments, countDocuments])
ListReads == {"find", "count", "unread"}

\* the request arrives and `query` is built; the three queries are issued
\* and none has been answered (`got` names the answered ones); notifications
\* are given by their _ids
ListNotifications(r, u, q) ==
    /\ r = ReadSlot /\ pc[r] = "idle"
    /\ reqUser' = [reqUser EXCEPT ![r] = u]
    /\ pc' = [pc EXCEPT ![r] = "nquery"]
    /\ resp' = [resp EXCEPT ![r] =
          [code |-> 0, message |-> "pending",
           arg |-> [query |-> q, got |-> {}, notifications |-> <<>>, total |-> 0,
                    page |-> q.page, pages |-> 0, unreadCount |-> 0]]]
    /\ ReadFrame

\* Promise.all resolves once the three queries are answered, and
\* res.json({notifications, total, page, pages, unreadCount}) is sent
listAnswered(r, a) ==
    IF a.got = ListReads
    THEN /\ pc' = [pc EXCEPT ![r] = "done"]
         /\ resp' = [resp EXCEPT ![r] = [code |-> 200, message |-> "notifications", arg |-> a]]
    ELSE /\ pc' = pc
         /\ resp' = [resp EXCEPT ![r].arg = a]

\* Notification.find(query).sort(...).skip(skip).limit(limit) is answered
FindNotifications(r) ==
    /\ pc[r] = "nquery" /\ "find" \notin resp[r].arg.got
    /\ LET a == resp[r].arg
       IN  listAnswered(r, [a EXCEPT
               !.got = a.got \cup {"find"},
               !.notifications = skipLimit(findSorted(reqUser[r], a.query, Len(notifications)),
                                           skipOf(a.query.page, a.query.limit), a.query.limit)])
    /\ reqUser' = reqUser
    /\ ReadFrame

\* Notification.countDocuments(query) is answered; pages is Math.ceil(total / limit)
CountNotifications(r) ==
    /\ pc[r] = "nquery" /\ "count" \notin resp[r].arg.got
    /\ LET a == resp[r].arg
           total == Len(findSorted(reqUser[r], a.query, Len(notifications)))
       IN  listAnswered(r, [a EXCEPT !.got = a.got \cup {"count"}, !.total = total,
                                     !.pages = ceilDiv(total, a.query.limit)])
    /\ reqUser' = reqUser
    /\ ReadFrame

\* Notification.countDocuments({user, isRead: false}) is answered
CountUnread(r) ==
    /\ pc[r] = "nquery" /\ "unread" \notin resp[r].arg.got
    /\ LET a == resp[r].arg
       IN  listAnswered(r, [a EXCEPT !.got = a.got \cup {"unread"},
                                     !.unreadCount = countUnread(reqUser[r])])
    /\ reqUser' = reqUser
    /\ ReadFrame

\* one of the queries not yet answered rejects: the catch answers 500
ListRejects(r) ==
    /\ pc[r] = "nquery"
    /\ Finish(r, Resp(500, "Error fetching notifications", "none"))
    /\ reqUser' = reqUser
    /\ ReadFrame

\* the read request has been answered; the next one may use the slot
NextRead(r) ==
    /\ r = ReadSlot /\ pc[r] = "done"
    /\ pc' = [pc EXCEPT ![r] = "idle"]
    /\ resp' = [resp EXCEPT ![r] = NoResp]
    /\ reqUser' = reqUser
    /\ ReadFrame

\* ------------------------------------------- PUT /notifications/<segment>
\* the path segment after /notifications/: a well-formed ObjectId, given by
\* the _id it denotes (which may be the _id of no document), or the text
\* "read-all"
IdPaths == [seg : {"id"}, n : 1..(MaxNotifs + 2)]
ReadAllPath == [seg |-> "read-all", n |-> 0]

\* the PUT routes of the router in the order they are registered
putRoutes == <<"/:id", "/read-all">>

\* Express tries the routes in registration order; "/:id" matches any single
\* segment, a literal route matches its own text
routeMatches(route, path) == route = "/:id" \/ route = "/" \o path.seg
firstMatch(routes, path) ==
    routes[CHOOSE k \in 1..Len(routes) :
              /\ routeMatches(routes[k], path)
              /\ \A j \in 1..(k - 1) : ~routeMatches(routes[j], path)]

\* mutant: the filter forgets the user
foundForUser_AnyOwner(id, u) ==
    id \in 1..Len(notifications) /\ notifications[id].user \in Users

\* the filter {_id: req.params.id, user: req.user._id} finds a document
foundForUser(id, u) ==
    id \in 1..Len(notifications) /\ notifications[id].user = u

\* updateMany({user, isRead: false}, {isRead: true})
markAllRead(ns, u) ==
    [i \in 1..Len(ns) |->
        IF ns[i].user = u /\ ns[i].isRead = FALSE THEN [ns[i] EXCEPT !.isRead = TRUE] ELSE ns[i]]

\* mutant: the flag is flipped
markedRead_Toggle(n) == [n EXCEPT !.isRead = ~n.isRead]

\* the update {isRead: true} of findOneAndUpdate
markedRead(n) == [n EXCEPT !.isRead = TRUE]

\* what the notification writers leave alone
NotifFrame ==
    /\ UNCHANGED <<carts, stock, price, discountPrice, catalog, fcmToken, orders>>
    /\ adm' = adm
    /\ UNCHANGED reqVars

\* the handler Express runs for PUT /notifications/<path>; its one awaited
\* call settles (ok: resolves), a rejection is caught: 500
PutNotification(u, path, ok) ==
    /\ IF firstMatch(putRoutes, path) = "/:id"
          THEN IF path.seg # "id"
               THEN \* the _id of the filter is cast to ObjectId: CastError, caught
                    /\ last' = Answer("put", 500, "Cast to ObjectId failed", u, path.n, path.seg)
                    /\ UNCHANGED notifications
               ELSE IF ~ok
               THEN /\ last' = Answer("put", 500, "store error", u, path.n, path.seg)
                    /\ UNCHANGED notifications
               ELSE IF foundForUser(path.n, u)
               THEN /\ notifications' =
                         [notifications EXCEPT ![path.n] = markedRead(notifications[path.n])]
                    /\ last' = Answer("put", 200, "notification", u, path.n, path.seg)
               ELSE /\ last' = Answer("put", 404, "Notification not found", u, path.n, path.seg)
                    /\ UNCHANGED notifications
          ELSE IF ~ok
          THEN /\ last' = Answer("put", 500, "store error", u, path.n, path.seg)
               /\ UNCHANGED notifications
          ELSE /\ notifications' = markAllRead(notifications, u)
               /\ last' = Answer("put", 200, "All notifications marked as read", u, path.n, path.seg)
    /\ NotifFrame

\* ------------------------------------------- DELETE /notifications/:id
\* await Notification.findOneAndDelete({_id, user}) settles
DeleteNotification(u, id, ok) ==
    /\ IF ~ok
          THEN /\ last' = Answer("delete", 500, "store error", u, id, "id")
               /\ UNCHANGED notifications
          ELSE IF foundForUser(id, u)
          THEN /\ notifications' = [notifications EXCEPT ![id] = DeletedNotification]
               /\ last' = Answer("delete", 200, "Notification deleted", u, id, "id")
          ELSE /\ last' = Answer("delete", 404, "Notification not found", u, id, "id")
               /\ UNCHANGED notifications
    /\ NotifFrame

NextNotif ==
    \/ \E u \in Users, path \in IdPaths \cup {ReadAllPath}, ok \in BOOLEAN :
          Uncounted(PutNotification(u, path, ok))
    \/ \E u \in Users, id \in 1..(MaxNotifs + 2), ok \in BOOLEAN :
          Uncounted(DeleteNotification(u, id, ok))
    \/ \E u \in Users, ok \in BOOLEAN : Counted(UpdateStatus(u, 1, "shipped", ok))
    \/ \E k \in InFlight, ok \in BOOLEAN : Uncounted(StatusFindUser(k, ok))
    \/ \E k \in InFlight, ok \in BOOLEAN : Uncounted(StatusPushDone(k, ok))
    \/ \E k \in InFlight, ok \in BOOLEAN : Uncounted(StatusSaveNotification(k, ok))

\* GET /notifications with the writers of Notifications going on between
\* its three queries: u1 marks and deletes Notifications and has the status
\* of its order changed
ListQueries ==
    {q \in Queries :
        /\ q.startDate = 0 \/ q.endDate = 0
        /\ q.type = "" \/ (q.unread = "false" /\ q.startDate = 0 /\ q.endDate = 0)}

NextList ==
    \/ \E r \in Reqs, u \in Users, q \in ListQueries : ListNotifications(r, u, q)
    \/ \E r \in Reqs : FindNotifications(r)
    \/ \E r \in Reqs : CountNotifications(r)
    \/ \E r \in Reqs : CountUnread(r)
    \/ \E r \in Reqs : ListRejects(r)
    \/ \E r \in Reqs : NextRead(r)
    \/ Uncounted(PutNotification("u1", [seg |-> "id", n |-> 1], TRUE))
    \/ \E id \in 1..MaxNotifs : Uncounted(DeleteNotification("u1", id, TRUE))
    \/ Counted(UpdateStatus("u1", 1, "shipped", TRUE))
    \/ \E k \in InFlight : Uncounted(StatusFindUser(k, TRUE))
    \/ \E k \in InFlight : Uncounted(StatusPushDone(k, TRUE))
    \/ \E k \in InFlight : Uncounted(StatusSaveNotification(k, TRUE))

SpecList == InitNotif /\ [][NextList]_vars

SpecNotif == InitNotif /\ [][NextNotif]_vars

\* ===========================================================================
\* sendAndSaveNotification (src/unnamed/part_004) and the version of
\* POST /orders that calls it (src/unnamed/part_000), as a specification of
\* their own.  A slot r of Reqs holds either a request of that handler or a
\* call of the function by some other caller.
OldNoteLimit == 500
OldBodies ==
    {b \in [paymentMethod : BOOLEAN, shippingAddress : BOOLEAN,
             noteLen : {OldNoteLimit, OldNoteLimit + 1}] :
        /\ (~b.paymentMethod => b.shippingAddress /\ b.noteLen <= OldNoteLimit)
        /\ (~b.shippingAddress => b.noteLen <= OldNoteLimit)}

\* part_000 requires sendNotification from '../config/firebase' and nothing
\* from the notification service: the identifier sendAndSaveNotification is
\* not bound in the module, and evaluating it throws a ReferenceError
sendAndSaveNotificationBound == FALSE

\* the parameter's default: `type = 'other'`
typeOrDefault(t) == IF t = "undefined" THEN "other" ELSE t

\* new Notification({user: userId, title, message, type, data}); the data
\* of the handler's call is {orderId}, that of another caller {}
placedNotification(u, id, t) ==
    [user |-> u, type |-> typeOrDefault(t), orderId |-> id, status |-> "none", isRead |-> FALSE]

InitSend ==
    /\ carts \in [Users -> {NoCart, SeedCart, [items |-> <<>>, totalAmount |-> 0, version |-> 0]}]
    /\ stock = [p \in Products |-> 1]
    /\ price = [p \in Products |-> 2]
    /\ discountPrice = [p \in Products |-> NullPrice]
    /\ catalog = Products
    /\ fcmToken = [u \in Users |-> u = "u1"]
    /\ orders = <<>>
    /\ notifications = <<>>
    /\ pc = [r \in Reqs |-> "idle"]
    /\ reqUser = [r \in Reqs |-> "u1"]
    /\ body = [r \in Reqs |-> [paymentMethod |-> TRUE, shippingAddress |-> TRUE, noteLen |-> 0]]
    /\ cart = [r \in Reqs |-> NoCart]
    /\ idx = [r \in Reqs |-> 0]
    /\ orderId = [r \in Reqs |-> 0]
    /\ push = [r \in Reqs |-> "none"]
    /\ resp = [r \in Reqs |-> NoResp]
    /\ stockAtCall = [r \in Reqs |-> stock]
    /\ notifId = [r \in Reqs |-> 0]
    /\ sendArgs = [r \in Reqs |-> NoSendArgs]
    /\ updates = 0
    /\ prodUpdates = 0
    /\ last = NoLast
    /\ adm = [k \in InFlight |-> NoAdm]

SendFrame == UNCHANGED <<stock, price, discountPrice, catalog, fcmToken, idx, stockAtCall>>
                /\ UNCHANGED adminVars

\* ------------------------------------------- sendAndSaveNotification
\* the function is called (by a caller other than the handler below) with or
\* without a `type` and a truthy `fcmToken`, and awaits notification.save()
CallSendAndSave(r, u, tok, type) ==
    /\ pc[r] = "idle"
    /\ reqUser' = [reqUser EXCEPT ![r] = u]
    /\ sendArgs' = [sendArgs EXCEPT ![r] = [type |-> type, fcmToken |-> tok]]
    /\ pc' = [pc EXCEPT ![r] = "nsave"]
    /\ UNCHANGED <<carts, orders, notifications, body, cart, orderId, push, resp, notifId>>
    /\ SendFrame

\* the function ends: it returns the notification or throws.  A caller that
\* is the handler (orderId[r] # 0) then answers 201, or 500 from its catch.
returnFrom(r, thrown) ==
    IF orderId[r] # 0
    THEN Finish(r, IF thrown THEN Resp(500, "Error creating order", "notify")
                             ELSE Resp(201, "created", "none"))
    ELSE Finish(r, IF thrown THEN Resp(0, "thrown", "none")
                             ELSE Resp(0, "returned", "notification"))

\* notification.save() settles; on success, `if (fcmToken)` starts the push
SaveNotification(r, ok) ==
    /\ pc[r] = "nsave"
    /\ IF ~ok
          THEN /\ returnFrom(r, TRUE)
               /\ UNCHANGED <<notifications, notifId, push>>
          ELSE /\ notifications' =
                     Append(notifications, placedNotification(reqUser[r], orderId[r], sendArgs[r].type))
               /\ notifId' = [notifId EXCEPT ![r] = Len(notifications) + 1]
               /\ IF sendArgs[r].fcmToken
                     THEN /\ pc' = [pc EXCEPT ![r] = "npush"]
                          /\ push' = [push EXCEPT ![r] = "sent"]
                          /\ resp' = resp
                     ELSE /\ returnFrom(r, FALSE)
                          /\ push' = push
    /\ UNCHANGED <<carts, orders, reqUser, body, cart, orderId, sendArgs>>
    /\ SendFrame

\* mutant: the inner catch rethrows
onSendPushError_Rethrow(r) == returnFrom(r, TRUE)

\* the inner catch: console.error, "Continue even if push notification fails"
onSendPushError(r) == returnFrom(r, FALSE)

\* sendNotification settles
SendPushDone(r, ok) ==
    /\ pc[r] = "npush"
    /\ push' = [push EXCEPT ![r] = IF ok THEN "delivered" ELSE "failed"]
    /\ IF ok THEN returnFrom(r, FALSE) ELSE onSendPushError(r)
    /\ UNCHANGED <<carts, orders, notifications, reqUser, body, cart, orderId, notifId, sendArgs>>
    /\ SendFrame

\* ------------------------------------------- POST /orders of part_000
\* the body checks, then await Cart.findOne(...).populate(...) settles (a
\* rejection: the catch's 500), the empty-cart check, and
\* cart.items.map(item => ({product: item.product._id, ...})), which throws
\* a TypeError on a line whose product has no document.  req.user.fcmToken
\* is the token the user had when the request arrived.
OldLoadCart(r, u, b, ok) ==
    /\ pc[r] = "idle"
    /\ reqUser' = [reqUser EXCEPT ![r] = u]
    /\ body' = [body EXCEPT ![r] = b]
    /\ sendArgs' = [sendArgs EXCEPT ![r] = [type |-> "order", fcmToken |-> fcmToken[u]]]
    /\ IF ~b.shippingAddress \/ ~b.paymentMethod
          THEN /\ Finish(r, Resp(400, "Shipping address and payment method are required", "none"))
               /\ cart' = cart
          ELSE IF b.noteLen > OldNoteLimit
          THEN /\ Finish(r, Resp(400, "Note cannot exceed 500 characters", "none"))
               /\ cart' = cart
          ELSE IF ~ok
          THEN /\ Finish(r, Resp(500, "Error creating order", "load"))
               /\ cart' = cart
          ELSE IF isEmptyCart(carts[u])
          THEN /\ Finish(r, Resp(400, "Cart is empty", "none"))
               /\ cart' = cart
          ELSE IF \E i \in 1..Len(carts[u].items) : productMissing(carts[u].items[i])
          THEN /\ Finish(r, Resp(500, "Error creating order", "TypeError"))
               /\ cart' = cart
          ELSE /\ cart' = [cart EXCEPT ![r] = carts[u]]
               /\ pc' = [pc EXCEPT ![r] = "osave"]
               /\ resp' = resp
    /\ UNCHANGED <<carts, orders, notifications, orderId, push, notifId>>
    /\ SendFrame

\* await order.save()
OldSaveOrder(r) ==
    /\ pc[r] = "osave"
    /\ orders' = Append(orders, newOrder(reqUser[r], cart[r]))
    /\ orderId' = [orderId EXCEPT ![r] = Len(orders) + 1]
    /\ pc' = [pc EXCEPT ![r] = "odelete"]
    /\ UNCHANGED <<carts, notifications, reqUser, body, cart, push, resp, notifId, sendArgs>>
    /\ SendFrame

\* await Cart.findByIdAndDelete(cart._id), then the call of
\* sendAndSaveNotification: a ReferenceError when the identifier is not
\* bound, which the handler's catch answers with 500
OldDeleteCart(r) ==
    /\ pc[r] = "odelete"
    /\ carts' = [carts EXCEPT ![reqUser[r]] = NoCart]
    /\ IF sendAndSaveNotificationBound
          THEN pc' = [pc EXCEPT ![r] = "nsave"] /\ resp' = resp
          ELSE returnFrom(r, TRUE)
    /\ UNCHANGED <<orders, notifications, reqUser, body, cart, orderId, push, notifId, sendArgs>>
    /\ SendFrame

\* order.save() or Cart.findByIdAndDelete rejects: the catch answers 500
OldAwaitRejects(r) ==
    /\ pc[r] \in {"osave", "odelete"}
    /\ Finish(r, Resp(500, "Error creating order", pc[r]))
    /\ UNCHANGED <<carts, orders, notifications, reqUser, body, cart, orderId, push, notifId, sendArgs>>
    /\ SendFrame

\* ------------------------------------------- PUT /orders/:id/status of part_000
\* order.status = req.body.status; a missing field unsets the path
withOldStatus(o, s) == [o EXCEPT !.status = IF s = "undefined" THEN "unset" ELSE s]

\* the schema's enum validator of status; it is not run on undefined
validOldStatus(s) == s \in validStatuses \cup {"undefined"}

\* the request arrives and await Order.findById(req.params.id) settles: the
\* filter names no user and the body's status is not tested
OldUpdateStatus(u, id, s, ok) ==
    /\ HasFreeSlot
    /\ IF ~ok
          THEN Answered(Answer("old-status", 400, "store error", u, id, s))
          ELSE IF id \notin 1..Len(orders)
          THEN Answered(Answer("old-status", 404, "Order not found", u, id, s))
          ELSE Suspend([Suspended("old-status", "save", u, id, s) EXCEPT !.loaded = orders[id].status])
    /\ UNCHANGED storeVars
    /\ AdmFrame

\* the assignment, then await order.save() settles: the validators run
\* first, then the path is written if the assignment modified it, that is,
\* changed the value the document was loaded with
OldStatusSave(k, ok) ==
    /\ adm[k].op = "old-status" /\ adm[k].at = "save"
    /\ IF ~validOldStatus(adm[k].value)
          THEN AnswerWith(k, AdmAnswer(k, 400, "validation failed")) /\ orders' = orders
          ELSE IF ~ok
          THEN AnswerWith(k, AdmAnswer(k, 400, "store error")) /\ orders' = orders
          ELSE /\ orders' = IF withOldStatus(orders[adm[k].id], adm[k].value).status # adm[k].loaded
                              THEN [orders EXCEPT ![adm[k].id] =
                                       withOldStatus(orders[adm[k].id], adm[k].value)]
                              ELSE orders
               /\ Resume(k, [adm[k] EXCEPT !.at = "populate"])
    /\ UNCHANGED <<carts, stock, price, discountPrice, catalog, fcmToken, notifications>>
    /\ AdmFrame

\* await order.populate('items.product') settles, then res.json(updatedOrder)
OldStatusPopulate(k, ok) ==
    /\ adm[k].op = "old-status" /\ adm[k].at = "populate"
    /\ AnswerWith(k, IF ok THEN AdmAnswer(k, 200, "order") ELSE AdmAnswer(k, 400, "store error"))
    /\ UNCHANGED storeVars
    /\ AdmFrame

NextSend ==
    \/ \E r \in Reqs, u \in Users, tok \in BOOLEAN, type \in {"promotion", "undefined"} : CallSendAndSave(r, u, tok, type)
    \/ \E r \in Reqs, ok \in BOOLEAN : SaveNotification(r, ok)
    \/ \E r \in Reqs, ok \in BOOLEAN : SendPushDone(r, ok)
    \/ \E r \in Reqs, u \in Users, b \in OldBodies, ok \in BOOLEAN : OldLoadCart(r, u, b, ok)
    \/ \E r \in Reqs : OldSaveOrder(r)
    \/ \E r \in Reqs : OldDeleteCart(r)
    \/ \E r \in Reqs : OldAwaitRejects(r)
    \/ \E u \in Users, id \in Reqs, s \in StatusInputs, ok \in BOOLEAN :
          Counted(OldUpdateStatus(u, id, s, ok))
    \/ \E k \in InFlight, ok \in BOOLEAN : Uncounted(OldStatusSave(k, ok))
    \/ \E k \in InFlight, ok \in BOOLEAN : Uncounted(OldStatusPopulate(k, ok))

SpecSend == InitSend /\ [][NextSend]_vars

\* ===========================================================================
\* The read routes of orderRoutes.js, GET /orders and GET /orders/:id, as a
\* specification of their own: up to MaxOrders pending orders exist, status
\* updates go on, and one read request at a time is under way in slot
\* ReadSlot (reads write nothing, so a second concurrent read would see
\* nothing new).  An Order's createdAt is its position in `orders`.
SeedOrders == UNION {[1..n -> {newOrder(u, SeedCart) : u \in Users}] : n \in 0..MaxOrders}

InitRead ==
    /\ carts = [u \in Users |-> NoCart]
    /\ stock = [p \in Products |-> 1]
    /\ price = [p \in Products |-> 2]
    /\ discountPrice = [p \in Products |-> NullPrice]
    /\ catalog = Products
    /\ fcmToken = [u \in Users |-> u = "u1"]
    /\ orders \in SeedOrders
    /\ notifications = <<>>
    /\ pc = [r \in Reqs |-> "idle"]
    /\ reqUser = [r \in Reqs |-> "u1"]
    /\ body = [r \in Reqs |-> [paymentMethod |-> TRUE, shippingAddress |-> TRUE, noteLen |-> 0]]
    /\ cart = [r \in Reqs |-> NoCart]
    /\ idx = [r \in Reqs |-> 0]
    /\ orderId = [r \in Reqs |-> 0]
    /\ push = [r \in Reqs |-> "none"]
    /\ resp = [r \in Reqs |-> NoResp]
    /\ stockAtCall = [r \in Reqs |-> stock]
    /\ notifId = [r \in Reqs |-> 0]
    /\ sendArgs = [r \in Reqs |-> NoSendArgs]
    /\ updates = 0
    /\ prodUpdates = 0
    /\ last = NoLast
    /\ adm = [k \in InFlight |-> NoAdm]

\* ------------------------------------------- GET /orders
\* req.query: status as sent ("" when absent), startDate / endDate as the
\* createdAt they parse to (0 when absent), page and limit as numbers
OrderQueries ==
    [status : {"", "shipped"}, startDate : {0, 2}, endDate : {0, 2},
     page : 1..MaxPage, limit : 1..MaxLimit]

\* mutant: the query is not scoped to the requester
orderMatches_AnyUser(i, u, q) ==
    /\ q.status # "" => orders[i].status = q.status
    /\ q.startDate # 0 => i >= q.startDate
    /\ q.endDate # 0 => i <= q.endDate

\* the `query` object {user, status?, createdAt?} applied to the order at _id i
orderMatches(i, u, q) ==
    /\ orders[i].user = u
    /\ q.status # "" => orders[i].status = q.status
    /\ q.startDate # 0 => i >= q.startDate
    /\ q.endDate # 0 => i <= q.endDate

\* Order.find(query).sort({createdAt: -1}): the matching _ids from i down
RECURSIVE findOrders(_, _, _)
findOrders(u, q, i) ==
    IF i = 0 THEN <<>>
    ELSE (IF orderMatches(i, u, q) THEN <<i>> ELSE <<>>) \o findOrders(u, q, i - 1)

\* aggregate([{$match: {user}}, {$group: {_id: '$status', count: {$sum: 1}}}])
\* written over the five zeroed keys of formattedStatusCounts
statusCountsOf(u) ==
    [st \in validStatuses |->
        Cardinality({i \in 1..Len(orders) : orders[i].user = u /\ orders[i].status = st})]

\* the request arrives and `query` is built; both queries of Promise.all are
\* issued and neither has been answered (`got` names the answered ones)
ListOrders(r, u, q) ==
    /\ r = ReadSlot /\ pc[r] = "idle"
    /\ reqUser' = [reqUser EXCEPT ![r] = u]
    /\ pc' = [pc EXCEPT ![r] = "query"]
    /\ resp' = [resp EXCEPT ![r] =
          [code |-> 0, message |-> "pending",
           arg |-> [query |-> q, got |-> {}, orders |-> <<>>, total |-> 0,
                    page |-> q.page, pages |-> 0]]]
    /\ ReadFrame

\* Promise.all resolves once both queries are answered
allAnswered(r, got) == [pc EXCEPT ![r] = IF got = {"find", "count"} THEN "counts" ELSE "query"]

\* Order.find(query).sort(...).skip(skip).limit(limit) is answered
FindOrders(r) ==
    /\ pc[r] = "query" /\ "find" \notin resp[r].arg.got
    /\ LET a == resp[r].arg
           got == a.got \cup {"find"}
       IN  /\ resp' = [resp EXCEPT ![r].arg =
                 [a EXCEPT !.got = got,
                           !.orders = skipLimit(findOrders(reqUser[r], a.query, Len(orders)),
                                                skipOf(a.query.page, a.query.limit),
                                                a.query.limit)]]
           /\ pc' = allAnswered(r, got)
    /\ reqUser' = reqUser
    /\ ReadFrame

\* Order.countDocuments(query) is answered; pages is Math.ceil(total / limit)
CountDocuments(r) ==
    /\ pc[r] = "query" /\ "count" \notin resp[r].arg.got
    /\ LET a == resp[r].arg
           got == a.got \cup {"count"}
           total == Len(findOrders(reqUser[r], a.query, Len(orders)))
       IN  /\ resp' = [resp EXCEPT ![r].arg =
                 [a EXCEPT !.got = got, !.total = total,
                           !.pages = ceilDiv(total, a.query.limit)]]
           /\ pc' = allAnswered(r, got)
    /\ reqUser' = reqUser
    /\ ReadFrame

\* Order.aggregate(...) resolves and res.json({...}) is sent
CountStatuses(r) ==
    /\ pc[r] = "counts"
    /\ pc' = [pc EXCEPT ![r] = "done"]
    /\ resp' = [resp EXCEPT ![r] =
          [code |-> 200, message |-> "orders", arg |-> resp[r].arg,
           statusCounts |-> statusCountsOf(reqUser[r])]]
    /\ reqUser' = reqUser
    /\ ReadFrame

\* a query not yet answered, or the aggregate, rejects: the catch answers 500
OrdersRejects(r) ==
    /\ pc[r] \in {"query", "counts"}
    /\ Finish(r, Resp(500, "Error fetching orders", "none"))
    /\ reqUser' = reqUser
    /\ ReadFrame

\* ------------------------------------------- GET /orders/:id
\* await Order.findOne({_id, user}).populate(...) settles; the answer carries
\* the order's _id and the order; a rejection is caught: 500
GetOrder(r, u, id, ok) ==
    /\ r = ReadSlot /\ pc[r] = "idle"
    /\ reqUser' = [reqUser EXCEPT ![r] = u]
    /\ pc' = [pc EXCEPT ![r] = "done"]
    /\ resp' = [resp EXCEPT ![r] =
          IF ~ok
          THEN [code |-> 500, message |-> "store error", arg |-> [id |-> id]]
          ELSE IF id \in 1..Len(orders) /\ orders[id].user = u
          THEN [code |-> 200, message |-> "order", arg |-> [id |-> id, order |-> orders[id]]]
          ELSE [code |-> 404, message |-> "Order not found", arg |-> [id |-> id]]]
    /\ ReadFrame

NextReads ==
    \/ \E r \in Reqs, u \in Users, q \in OrderQueries : ListOrders(r, u, q)
    \/ \E r \in Reqs : FindOrders(r)
    \/ \E r \in Reqs : CountDocuments(r)
    \/ \E r \in Reqs : CountStatuses(r)
    \/ \E r \in Reqs : OrdersRejects(r)
    \/ \E r \in Reqs, u \in Users, id \in 1..(MaxOrders + 1), ok \in BOOLEAN : GetOrder(r, u, id, ok)
    \/ \E r \in Reqs : NextRead(r)
    \/ \E u \in Users, id \in 1..MaxOrders : Counted(UpdateStatus(u, id, "shipped", TRUE))
    \/ \E k \in InFlight : Uncounted(StatusFindUser(k, TRUE))
    \/ \E k \in InFlight : Uncounted(StatusPushDone(k, TRUE))
    \/ \E k \in InFlight : Uncounted(StatusSaveNotification(k, FALSE))

SpecRead == InitRead /\ [][NextReads]_vars

\* ================================================================ properties
Done(r) == pc[r] = "done"
Succeeded(r) == Done(r) /\ resp[r].code = 201
Created(r) == orderId[r] # 0
Loaded(r) == cart[r] # NoCart
EmptyCartDoc(c) == c.items = <<>> /\ c.totalAmount = 0
ValidBody(b) == b.paymentMethod /\ b.shippingAddress /\ b.noteLen <= NoteLimit

\* quantity of product p on the lines `items`
RECURSIVE QtyOf(_, _)
QtyOf(items, p) ==
    IF items = <<>> THEN 0
    ELSE (IF Head(items).product = p THEN Head(items).quantity ELSE 0) + QtyOf(Tail(items), p)

\* does line i of cart document c ask for more than stk holds?
Short(c, i, stk) == c.items[i].quantity > stk[c.items[i].product]
HasShortLine(c, stk) == \E i \in 1..Len(c.items) : Short(c, i, stk)
FirstShort(c, stk) ==
    CHOOSE i \in 1..Len(c.items) : Short(c, i, stk) /\ \A j \in 1..(i - 1) : ~Short(c, j, stk)

\* ---------------------------------------------------------------------- C1
\* C1: a placeOrder request that loaded a non-empty cart, found every line's
\* product and found it in stock, carried a well-formed body and met no store
\* failure answers 201 and
\* has created exactly one Order: owned by the user, totalAmount the cart's
\* total, lines equal to the cart's lines with the cart-line prices (not the
\* live product prices); the user's cart then has no lines and total 0.
C1_OrderFromCart ==
    /\ \A r \in Reqs :
          (Done(r) /\ Loaded(r) /\ ValidBody(body[r])
             /\ resp[r].message \notin {"Insufficient stock for", "store error", "TypeError"})
          => Succeeded(r)
    /\ \A r \in Reqs :
          Succeeded(r) =>
            /\ orderId[r] \in 1..Len(orders)
            /\ orders[orderId[r]].user = reqUser[r]
            /\ orders[orderId[r]].totalAmount = cart[r].totalAmount
            /\ orders[orderId[r]].totalAmount = SumLines(orders[orderId[r]].items)
            /\ Len(orders[orderId[r]].items) = Len(cart[r].items)
            /\ \A i \in 1..Len(cart[r].items) :
                  /\ orders[orderId[r]].items[i].product = cart[r].items[i].product
                  /\ orders[orderId[r]].items[i].quantity = cart[r].items[i].quantity
                  /\ orders[orderId[r]].items[i].price = cart[r].items[i].price
            /\ EmptyCartDoc(carts[reqUser[r]])
    /\ \A r1, r2 \in Reqs : (r1 # r2 /\ Created(r1) /\ Created(r2)) => orderId[r1] # orderId[r2]
    /\ Len(orders) = Cardinality({r \in Reqs : Created(r)})

\* a two-line order was placed whose line prices differ from the live prices
C1_Witness ==
    \E r \in Reqs :
        /\ Succeeded(r)
        /\ Len(cart[r].items) = 2
        /\ \A i \in 1..2 : orders[orderId[r]].items[i].price # price[cart[r].items[i].product]

\* ---------------------------------------------------------------------- C2
\* C2: when a loaded cart has a line asking for more than the current stock,
\* placeOrder answers 400 "Insufficient stock for <product>" naming the first
\* such line in cart order, creates no Order and leaves the cart's lines; no
\* step of placeOrder changes any product's stock, and the answer is given
\* only for a line whose quantity exceeds the stock read.
C2_State ==
    \A r \in Reqs :
        (Done(r) /\ Loaded(r) /\ prodUpdates = 0 /\ HasShortLine(cart[r], stock)
           /\ resp[r].message # "store error")
        => /\ resp[r] = Resp(400, "Insufficient stock for",
                              cart[r].items[FirstShort(cart[r], stock)].product)
           /\ ~Created(r)
           /\ carts[reqUser[r]] = cart[r]

C2_Step ==
    \A r \in Reqs :
        /\ pc'[r] # pc[r] => stock' = stock
        /\ (pc[r] = "check" /\ resp'[r].message = "Insufficient stock for")
           => /\ resp'[r].arg = cart[r].items[idx[r]].product
              /\ cart[r].items[idx[r]].quantity > stock[cart[r].items[idx[r]].product]
              /\ UNCHANGED <<orders, carts, orderId>>

C2_InsufficientStock == []C2_State /\ [][C2_Step]_vars

\* the second line of a two-line cart was the first one short of stock
C2_Witness ==
    \E r \in Reqs :
        /\ Done(r) /\ Loaded(r) /\ prodUpdates = 0
        /\ resp[r].message = "Insufficient stock for"
        /\ Len(cart[r].items) = 2
        /\ resp[r].arg = cart[r].items[2].product

\* ---------------------------------------------------------------------- C3
\* C3: after a successful placeOrder (no other request, no product update in
\* between) every product's stock is its stock at the call minus the quantity
\* ordered of it.
C3_StockDecremented ==
    \A r \in Reqs :
        (Succeeded(r) /\ prodUpdates = 0 /\ \A q \in Reqs \ {r} : pc[q] = "idle")
        => \A p \in Products :
              stock[p] = stockAtCall[r][p] - QtyOf(orders[orderId[r]].items, p)

\* ---------------------------------------------------------------------- C4
\* C4: of the placeOrder calls by different users that each ask for k units of
\* product p against the same stock s, with jointly more than s units asked,
\* at most s \div k succeed, and the stock of p is never negative.
C4_NoOversell ==
    \A p \in Products, k \in 1..MaxQty, s \in 0..MaxStock :
        LET S == {r \in Reqs : /\ Len(cart[r].items) = 1
                                /\ cart[r].items[1].product = p
                                /\ cart[r].items[1].quantity = k
                                /\ stockAtCall[r][p] = s}
        IN  (/\ prodUpdates = 0
             /\ \A r1, r2 \in S : r1 # r2 => reqUser[r1] # reqUser[r2]
             /\ k * Cardinality(S) > s)
            => /\ Cardinality({r \in S : Succeeded(r)}) <= s \div k
               /\ stock[p] >= 0

\* ---------------------------------------------------------------------- C5
\* C5: two placeOrder calls of one user that loaded the same non-empty cart
\* (neither meeting a store failure) create at most one Order between them.
C5_OneOrderPerCheckout ==
    \A r1, r2 \in Reqs :
        (/\ r1 # r2 /\ reqUser[r1] = reqUser[r2]
         /\ Loaded(r1) /\ cart[r1] = cart[r2]
         /\ resp[r1].message # "store error" /\ resp[r2].message # "store error")
        => ~(Created(r1) /\ Created(r2))

\* ---------------------------------------------------------------------- C6
\* C6: after a successful placeOrder exactly one Notification of type 'order'
\* of the ordering user references the new order.
C6_OrderNotification ==
    \A r \in Reqs :
        Succeeded(r)
        => Cardinality({i \in 1..Len(notifications) :
                          /\ notifications[i].user = reqUser[r]
                          /\ notifications[i].type = "order"
                          /\ notifications[i].orderId = orderId[r]}) = 1

\* ---------------------------------------------------------------------- C7
\* C7: placeOrder of a user with no cart, or with a cart of zero lines,
\* answers 400 'Cart is empty' at once (the lookup of the cart resolving) and
\* changes nothing: no Order, no Notification, no stock or cart change, no
\* push.
C7_Step ==
    \A r \in Reqs :
        (pc[r] = "idle" /\ pc'[r] # "idle" /\ resp'[r].message # "store error"
           /\ (carts[reqUser'[r]] = NoCart \/ carts[reqUser'[r]].items = <<>>))
        => /\ pc'[r] = "done"
           /\ resp'[r] = Resp(400, "Cart is empty", "none")
           /\ UNCHANGED <<orders, notifications, stock, carts, orderId, push>>

C7_State ==
    \A r \in Reqs :
        resp[r].message = "Cart is empty"
        => Done(r) /\ ~Loaded(r) /\ ~Created(r) /\ push[r] = "none"

C7_EmptyCart == []C7_State /\ [][C7_Step]_vars

\* both kinds of empty cart were refused: a user without a cart document and a
\* user whose cart document has zero lines
C7_Witness ==
    \E r1, r2 \in Reqs :
        /\ resp[r1].message = "Cart is empty" /\ carts[reqUser[r1]] = NoCart
        /\ resp[r2].message = "Cart is empty" /\ carts[reqUser[r2]] # NoCart
        /\ carts[reqUser[r2]].items = <<>>

\* ---------------------------------------------------------------------- C8
\* C8: when the push sent by placeOrder fails, the request still answers 201,
\* its Order is persisted and the user's cart is cleared.
C8_PushFailureIgnored ==
    \A r \in Reqs :
        push[r] = "failed"
        => /\ Succeeded(r)
           /\ orderId[r] \in 1..Len(orders)
           /\ orders[orderId[r]].user = reqUser[r]
           /\ EmptyCartDoc(carts[reqUser[r]])

C8_Witness == \E r \in Reqs : push[r] = "failed" /\ Done(r)

\* ---------------------------------------------------------------------- C9
\* C9: when cart.save() rejects after the Order was persisted, the request
\* still answers 201 and the Order stays persisted.
C9_ClearFailureIgnored ==
    \A r \in Reqs :
        (Done(r) /\ Created(r) /\ resp[r].arg = "clear")
        => /\ resp[r].code = 201
           /\ orderId[r] \in 1..Len(orders)

\* --------------------------------------------------------------------- C10
\* C10: no step removes an Order or changes its user, items or totalAmount;
\* only status and paymentStatus change after creation.
C10_Step ==
    \A id \in 1..Len(orders) :
        /\ id \in 1..Len(orders')
        /\ orders'[id].user = orders[id].user
        /\ orders'[id].items = orders[id].items
        /\ orders'[id].totalAmount = orders[id].totalAmount

C10_OrderImmutable == [][C10_Step]_vars

\* two orders exist and a status or payment transition has been applied
C10_Witness ==
    /\ Len(orders) = 2
    /\ \E id \in 1..2 : orders[id].status # "pending" \/ orders[id].paymentStatus # "pending"

\* ---------------------------------------------------------------------------
\* PUT /orders/:id/status and PUT /orders/:id/payment, claim by claim
\* (specification SpecStatus).  A request that arrives is counted in
\* `updates`; it is answered at once (the answer is in `last` and no slot
\* changes) or it is suspended in the first free slot.
Arrival == IF adm' = adm THEN last' ELSE adm'[FreeSlot]
StatusRequest == updates' = updates + 1 /\ Arrival.op = "status"
PaymentRequest == updates' = updates + 1 /\ Arrival.op = "payment"
\* the handler suspended in slot k answers in this step
AnswersFrom(k, op) == adm[k].op = op /\ adm'[k].op = "none"
OrderExists(id) == id \in 1..Len(orders)
ByOwner == OrderExists(Arrival.id) /\ orders[Arrival.id].user = Arrival.user
ByOther == OrderExists(Arrival.id) /\ orders[Arrival.id].user # Arrival.user

C11_Step404 ==
    /\ \A k \in InFlight :
          AnswersFrom(k, "status") /\ adm[k].value = "shipped"
              => /\ last'.code = 200 /\ last'.message = "order"
                 /\ orders'[adm[k].id].status = "shipped"
    /\ StatusRequest /\ Arrival.value = "shipped" /\ ByOther
          => last'.code = 404 /\ orders' = orders

\* C11 as stated: 'shipped' by the owner of a pending order is answered with
\* the order, stored as 'shipped'; the same request by a user who does not own
\* the order is answered 404 and leaves the order's status unchanged
C11_NonOwner404 == [][C11_Step404]_vars

C12_Step ==
    StatusRequest /\ Arrival.value \notin {"pending", "processing", "shipped", "delivered", "cancelled"}
        => /\ adm' = adm
           /\ last'.code = 400 /\ last'.message = "Invalid status"
           /\ orders' = orders
           /\ notifications' = notifications
           /\ last'.push = "none" /\ last'.notif = "none"

\* no request with such a status is under way past the test
C12_State ==
    \A k \in InFlight :
        adm[k].op = "status"
            => adm[k].value \in {"pending", "processing", "shipped", "delivered", "cancelled"}

\* C12: a status request whose status is none of the five values, a missing
\* one included, is answered 400 'Invalid status' before any store access: no
\* order changes, no Notification is created and no push is attempted
C12_InvalidStatus == []C12_State /\ [][C12_Step]_vars

\* the owner of an existing order, who has a device token, sent a request
\* without a status and was answered 'Invalid status'
C12_Witness ==
    /\ last.op = "status" /\ last.value = "undefined" /\ last.message = "Invalid status"
    /\ OrderExists(last.id) /\ orders[last.id].user = last.user
    /\ fcmToken[last.user]

C13_Step ==
    \A k \in InFlight :
        AnswersFrom(k, "status")
            => /\ last'.code = 200 /\ last'.message = "order"
               /\ last'.id = adm[k].id
               /\ orders'[adm[k].id].status \in validStatuses

\* C13: once the status of the requester's order is persisted, the request is
\* answered 200 with the order and the order keeps a status, whatever
\* happens in the steps that notify
C13_NotifyNeverFails == [][C13_Step]_vars

C14_Step ==
    /\ PaymentRequest /\ ~OrderExists(Arrival.id) /\ last'.message # "store error"
          => last'.code = 404 /\ adm' = adm
    /\ \A k \in InFlight :
          (/\ adm[k].op = "payment" /\ adm[k].at = "save" /\ adm'[k] # adm[k]
           /\ adm[k].value \notin {"pending", "completed", "failed"})
              => /\ AnswersFrom(k, "payment") /\ last'.code = 400
                 /\ orders' = orders
    /\ PaymentRequest \/ (\E k \in InFlight : adm[k].op = "payment" /\ adm'[k] # adm[k])
          => notifications' = notifications

\* C14: a payment-status request with a value outside pending, completed,
\* failed is answered 400 and the stored paymentStatus stays as it was; an id
\* of no order is answered 404; no step of the handler creates a Notification
C14_PaymentValidated == [][C14_Step]_vars

\* C15: every stored order has a status among pending, processing, shipped,
\* delivered, cancelled and a paymentStatus among pending, completed, failed,
\* whatever status and payment requests were made
C15_EnumsHold ==
    \A id \in 1..Len(orders) :
        /\ orders[id].status \in {"pending", "processing", "shipped", "delivered", "cancelled"}
        /\ orders[id].paymentStatus \in {"pending", "completed", "failed"}

\* C16: a placeOrder request whose body misses paymentMethod or carries a
\* note longer than 100 characters is answered 400, creates no order and
\* leaves the cart as it was (requests that met a store error aside)
C16_ValidationIs400 ==
    \A r \in Reqs :
        Done(r) /\ ~ValidBody(body[r]) /\ resp[r].message # "store error"
            => /\ resp[r].code = 400
               /\ ~Created(r)
               /\ \/ carts[reqUser[r]] = cart[r]
                  \/ \E q \in Reqs \ {r} : reqUser[q] = reqUser[r] /\ Created(q)

\* C17: in every state reached by any interleaving of order placements and
\* product creations and updates, the stock of every product is at least 0
\* (specification SpecStock)
C17_StockNonNegative == \A p \in catalog : stock[p] >= 0

\* an order for p1 was placed while an update lowered p1's stock from 1 to
\* 0, and p2 was created with a stock of 1
C17_Witness ==
    \E r \in Reqs :
        /\ Succeeded(r) /\ QtyOf(cart[r].items, "p1") > 0
        /\ stockAtCall[r]["p1"] = 1 /\ stock["p1"] = 0
        /\ "p2" \in catalog /\ stock["p2"] = 1

\* ---------------------------------------------------------------------------
\* The notification routes, claim by claim (specification SpecNotif).
\* a step of the PUT or DELETE handler: it answers, and the answer or the
\* collection is not what it was
Handled(op) == last'.op = op /\ (last' # last \/ notifications' # notifications)

C18_Step ==
    Handled("put") /\ last'.value = "read-all" /\ last'.message # "store error"
        => /\ last'.code = 200
           /\ Len(notifications') = Len(notifications)
           /\ \A i \in 1..Len(notifications) :
                 IF notifications[i].user = last'.user
                 THEN notifications'[i].isRead = TRUE
                 ELSE notifications'[i] = notifications[i]

\* C18: PUT /notifications/read-all by user u succeeds (the store answering),
\* afterwards every Notification of u is read, and no Notification of another
\* user changes
C18_MarkAllRead == [][C18_Step]_vars

C19_Step ==
    (Handled("put") \/ Handled("delete")) /\ last'.value = "id" =>
        IF last'.message = "store error"
        THEN notifications' = notifications
        ELSE IF last'.id \in 1..Len(notifications) /\ notifications[last'.id].user = last'.user
        THEN /\ last'.code = 200
             /\ Len(notifications') = Len(notifications)
             /\ \A j \in 1..Len(notifications) :
                   j # last'.id => notifications'[j] = notifications[j]
             /\ last'.op = "put" =>
                   notifications'[last'.id] = [notifications[last'.id] EXCEPT !.isRead = TRUE]
             /\ last'.op = "delete" => notifications'[last'.id].user \notin Users
        ELSE /\ last'.code = 404
             /\ notifications' = notifications

\* C19: mark-one-read and delete-one by user u on a Notification of another
\* user, or on an _id of no Notification, are answered 404 and change no
\* Notification; on a Notification of u they are answered 200 and change
\* that Notification only (a request the store fails changes nothing)
C19_OwnNotificationOnly == [][C19_Step]_vars

\* a mark-one-read of another user's unread Notification was answered 404
\* and the Notification is still unread
C19_Witness ==
    /\ last.op = "put" /\ last.value = "id" /\ last.code = 404
    /\ last.id \in 1..Len(notifications)
    /\ notifications[last.id].user \in Users \ {last.user}
    /\ notifications[last.id].isRead = FALSE

\* ---------------------------------------------------------------------------
\* GET /notifications (specification SpecList): each of its three queries is
\* answered from the collection as it is at that moment.
\* the Notifications of u that pass the filters of q, as the claim words them
C20_Matching(u, q) ==
    {i \in 1..Len(notifications) :
        /\ notifications[i].user = u
        /\ q.unread = "true" => ~notifications[i].isRead
        /\ q.type = "" \/ notifications[i].type = q.type
        /\ q.startDate = 0 \/ q.startDate <= i
        /\ q.endDate = 0 \/ i <= q.endDate}

C20_PageSize(total, p, l) ==
    IF total - (p - 1) * l <= 0 THEN 0
    ELSE IF total - (p - 1) * l < l THEN total - (p - 1) * l ELSE l

\* query `read` of the list request is answered in this step
C20_Answered(read) ==
    /\ pc[ReadSlot] = "nquery"
    /\ pc'[ReadSlot] \in {"nquery", "done"} /\ resp'[ReadSlot].code # 500
    /\ read \in resp'[ReadSlot].arg.got \ resp[ReadSlot].arg.got

\* the find: positions (p-1)*l+1 .. p*l of u's matching Notifications from
\* the newest on, none of them another user's
C20_FindStep ==
    C20_Answered("find") =>
        LET u == reqUser[ReadSlot]
            res == resp'[ReadSlot].arg
            q == res.query
            M == C20_Matching(u, q)
        IN  /\ Len(res.notifications) = C20_PageSize(Cardinality(M), q.page, q.limit)
            /\ \A k \in 1..Len(res.notifications) :
                  /\ res.notifications[k] \in M
                  /\ notifications[res.notifications[k]].user = u
                  /\ Cardinality({i \in M : i > res.notifications[k]})
                        = (q.page - 1) * q.limit + k - 1

\* the count: total is the number of u's matching Notifications and pages is
\* ceil(total / l)
C20_TotalStep ==
    C20_Answered("count") =>
        LET res == resp'[ReadSlot].arg
            q == res.query
        IN  /\ res.total = Cardinality(C20_Matching(reqUser[ReadSlot], q))
            /\ res.pages * q.limit >= res.total
            /\ (res.pages - 1) * q.limit < res.total

\* the unread count: all of u's unread Notifications, whatever the filters
C20_UnreadStep ==
    C20_Answered("unread") =>
        resp'[ReadSlot].arg.unreadCount =
            Cardinality({i \in 1..Len(notifications) :
                            notifications[i].user = reqUser[ReadSlot] /\ ~notifications[i].isRead})

\* the answer: 200 with the page asked for and what the three queries gave
C20_AnswerStep ==
    (pc[ReadSlot] = "nquery" /\ pc'[ReadSlot] = "done" /\ resp'[ReadSlot].code # 500) =>
        /\ resp'[ReadSlot].code = 200
        /\ resp'[ReadSlot].arg.got = ListReads
        /\ resp'[ReadSlot].arg.page = resp'[ReadSlot].arg.query.page
        /\ \A read \in resp[ReadSlot].arg.got :
              /\ read = "find" => resp'[ReadSlot].arg.notifications = resp[ReadSlot].arg.notifications
              /\ read = "count" => resp'[ReadSlot].arg.total = resp[ReadSlot].arg.total
              /\ read = "unread" => resp'[ReadSlot].arg.unreadCount = resp[ReadSlot].arg.unreadCount

\* C20: the list for user u with filters F, page p and limit l gives as total
\* the number of u's Notifications matching F, as unreadCount the number of
\* u's unread Notifications whatever F is, as pages ceil(total / l), and as
\* items positions (p-1)*l+1 .. p*l of u's matching Notifications from the
\* newest on, none of them another user's
C20_ListResult ==
    [][C20_FindStep /\ C20_TotalStep /\ C20_UnreadStep /\ C20_AnswerStep]_vars

\* an unread-only second page with one item on it was answered to a user
\* with three Notifications of which two are unread, while the other user
\* has a Notification too
C20_Witness ==
    /\ pc[ReadSlot] = "done" /\ resp[ReadSlot].message = "notifications"
    /\ resp[ReadSlot].arg.query.page = 2 /\ resp[ReadSlot].arg.query.unread = "true"
    /\ Len(resp[ReadSlot].arg.notifications) = 1
    /\ resp[ReadSlot].arg.total = 2 /\ resp[ReadSlot].arg.unreadCount = 2
    /\ Cardinality({i \in 1..Len(notifications) : notifications[i].user = reqUser[ReadSlot]}) = 3

\* ---------------------------------------------------------------------------
\* POST /orders again (specification Spec), claims C21 on.
\* the step in which the cart.save() of request r settles, the store at
\* work: the save resolves, or the version filter rejects it
ClearSettles(r) == pc[r] = "clear" /\ pc'[r] # "clear" /\ resp'[r] # Resp(500, "store error", "clear")

C21_Step ==
    \A r \in Reqs :
        ClearSettles(r) /\ EmptyCartDoc(carts[reqUser[r]]) =>
            /\ EmptyCartDoc(carts'[reqUser[r]])
            /\ resp'[r] = NoResp

\* C21: the cart-clear step of a request whose user's stored cart is already
\* empty (without lines, total 0) leaves that cart empty with total 0 and
\* raises no error: the request goes on without an answer of the catch
C21_ClearIdempotent == [][C21_Step]_vars

\* the order of request r is in the Order collection
Persisted(r) == orderId[r] \in 1..Len(orders) /\ orders[orderId[r]].user = reqUser[r]

C22_Step ==
    \A u \in Users :
        carts'[u] # carts[u] =>
            \E r \in Reqs : reqUser[r] = u /\ pc[r] # pc'[r] /\ Persisted(r)

C22_State ==
    \A r \in Reqs :
        Done(r) /\ Loaded(r) /\ ~Persisted(r) =>
            /\ push[r] = "none"
            /\ \/ carts[reqUser[r]] = cart[r]
               \/ \E q \in Reqs \ {r} : reqUser[q] = reqUser[r] /\ Persisted(q)

\* C22: a cart changes only in a step of a request whose Order is already in
\* the Order collection, and a request that ended without its Order being
\* persisted has left the cart with all its lines and attempted no push
C22_ClearAfterPersist == []C22_State /\ [][C22_Step]_vars

\* order.save() of a request failed: the request is answered 500, no Order
\* exists and the cart still holds its lines
C22_Witness ==
    \E r \in Reqs :
        /\ Done(r) /\ Loaded(r) /\ ~Persisted(r)
        /\ resp[r].code = 500 /\ resp[r].arg \in {"save", "none"}
        /\ orders = <<>>
        /\ carts[reqUser[r]] = cart[r] /\ Len(cart[r].items) > 0

\* C23 (specification SpecLive): a request whose Order is persisted, whose
\* cart is cleared and whose push call is under way eventually sends its
\* response, whether or not the push call ever settles
C23_ResponseWithoutPush ==
    \A r \in Reqs : (pc[r] = "push" /\ Persisted(r)) ~> (Done(r) /\ resp[r].code = 201)

\* ---------------------------------------------------------------------------
\* The notification routes again (specification SpecNotif).
C24_Step ==
    \A i \in 1..Len(notifications) :
        notifications[i].user \in Users =>
            /\ i \in 1..Len(notifications')
            /\ \/ notifications'[i].user \notin Users        \* deleted
               \/ /\ notifications'[i].user = notifications[i].user
                  /\ notifications'[i].type = notifications[i].type
                  /\ notifications'[i].orderId = notifications[i].orderId
                  /\ notifications'[i].status = notifications[i].status
                  /\ notifications[i].isRead => notifications'[i].isRead

\* C24: whatever notification requests and status changes happen, an existing
\* Notification keeps its user, type and data, and its isRead flag, once
\* true, stays true until the Notification is deleted
C24_OnlyIsReadFlips == [][C24_Step]_vars

\* a Notification made by a status change has been read and was then the
\* target of another mark-one-read, and another Notification was deleted
C24_Witness ==
    /\ last.op = "put" /\ last.code = 200
    /\ notifications[last.id].type = "order" /\ notifications[last.id].isRead
    /\ \E i \in 1..Len(notifications) : notifications[i] = DeletedNotification

\* ---------------------------------------------------------------------------
\* The product routes (specification SpecProduct).
\* C25: after any product create and update requests, every stored product
\* has a discountPrice that is null or strictly less than its price
C25_DiscountBelowPrice ==
    \A p \in catalog : discountPrice[p] = NullPrice \/ discountPrice[p] < price[p]

\* ---------------------------------------------------------------------------
\* sendAndSaveNotification and its caller (specification SpecSend).
\* slot r holds a call of the function by a caller other than the handler
DirectCall(r) == orderId[r] = 0 /\ pc[r] \in {"nsave", "npush", "done"} /\ cart[r] = NoCart
                    /\ resp[r].code = 0
NotifPersisted(r) ==
    /\ notifId[r] \in 1..Len(notifications)
    /\ notifications[notifId[r]].user = reqUser[r]

\* C26: when sendAndSaveNotification attempts a push, its Notification is
\* already persisted; a failed push still ends in the persisted Notification
\* being returned; and if the Notification is not persisted no push is
\* attempted and the call throws
C26_SaveThenPush ==
    \A r \in Reqs :
        /\ push[r] # "none" => NotifPersisted(r)
        /\ DirectCall(r) /\ Done(r) /\ push[r] = "failed"
              => resp[r].message = "returned" /\ NotifPersisted(r)
        /\ DirectCall(r) /\ Done(r) /\ notifId[r] = 0
              => resp[r].message = "thrown" /\ push[r] = "none"

\* a call whose push failed has returned its persisted Notification, and
\* another call whose save failed has thrown without a push
C26_Witness ==
    \E r \in Reqs, q \in Reqs :
        /\ DirectCall(r) /\ Done(r) /\ push[r] = "failed" /\ resp[r].message = "returned"
        /\ DirectCall(q) /\ Done(q) /\ notifId[q] = 0 /\ resp[q].message = "thrown"

\* C27: in the handler that calls sendAndSaveNotification, once the Order is
\* persisted and the cart deleted, the request is answered 201 whatever
\* happens in the notification step
C27_NotifyFailureIgnored ==
    \A r \in Reqs :
        Done(r) /\ Persisted(r) /\ resp[r].arg \notin {"osave", "odelete"}
            => resp[r].code = 201

\* ---------------------------------------------------------------------------
\* Ownership of orders (specification SpecStatus).
C28_Step ==
    \A id \in 1..Len(orders) :
        (\/ orders'[id].status # orders[id].status
         \/ orders'[id].paymentStatus # orders[id].paymentStatus)
            => \E k \in InFlight :
                  /\ adm'[k] # adm[k]
                  /\ orders[id].user = (IF adm[k].op = "none" THEN adm'[k].user ELSE adm[k].user)

\* C28: the status and the paymentStatus of an order change only in a step
\* of a status or payment request made by the order's owner
C28_OwnOrdersOnly == [][C28_Step]_vars

\* ---------------------------------------------------------------------------
\* Products that are gone (specification Spec).
\* a line of the cart request r loaded names a product that had no document
\* when the request arrived
MissingAtCall(r) ==
    /\ Loaded(r)
    /\ \E i \in 1..Len(cart[r].items) : stockAtCall[r][cart[r].items[i].product] = NoStock

\* C29: a request whose cart names a product that no longer exists never
\* creates an Order and never pushes, and it ends with an error response and
\* the cart as it was
C29_MissingProductFails ==
    \A r \in Reqs :
        MissingAtCall(r) =>
            /\ ~Created(r)
            /\ push[r] = "none"
            /\ Done(r) =>
                  /\ resp[r].code >= 400
                  /\ \/ carts[reqUser[r]] = cart[r]
                     \/ \E q \in Reqs \ {r} : reqUser[q] = reqUser[r] /\ Persisted(q)

\* the first line of the cart passed the stock check and the second names a
\* product that is gone: the request ended with the TypeError's 500
C29_Witness ==
    \E r \in Reqs :
        /\ MissingAtCall(r) /\ Done(r)
        /\ resp[r].message = "TypeError" /\ idx[r] = 2
        /\ carts[reqUser[r]] = cart[r] /\ orders = <<>>

\* ---------------------------------------------------------------------------
\* Reading orders (specification SpecRead).
\* the _ids of the orders user u owns
OwnedBy(u) == {i \in 1..Len(orders) : orders[i].user = u}

\* the _ids of u's orders that pass the status / date filters of query q
OwnedMatching(u, q) ==
    {i \in OwnedBy(u) :
        /\ q.status # "" => orders[i].status = q.status
        /\ q.startDate # 0 => i >= q.startDate
        /\ q.endDate # 0 => i <= q.endDate}

\* the five counts of a statusCounts object, added up
CountSum(sc) ==
    sc["pending"] + sc["processing"] + sc["shipped"] + sc["delivered"] + sc["cancelled"]

\* GET /orders/:id answered: 200 with the order only when the requester
\* owns it, 404 otherwise, and no order in the answer when the lookup fails
C30_GetStep ==
    (pc[ReadSlot] = "idle" /\ pc'[ReadSlot] = "done") =>
        LET a == resp'[ReadSlot]
            u == reqUser'[ReadSlot]
        IN  /\ a.code \in {200, 404, 500}
            /\ a.code = 500 <=> a.message = "store error"
            /\ a.code = 200 => a.arg.id \in OwnedBy(u)
            /\ a.code = 404 <=> (a.message # "store error" /\ a.arg.id \notin OwnedBy(u))
            /\ a.code = 200 => a.arg.order = orders[a.arg.id] /\ a.arg.order.user = u
            /\ a.code # 200 => DOMAIN a.arg = {"id"}

\* GET /orders, the find is answered: every order of the page is the
\* requester's and passes the filters
C30_FindStep ==
    (pc[ReadSlot] = "query" /\ resp'[ReadSlot].code # 500
        /\ "find" \in resp'[ReadSlot].arg.got \ resp[ReadSlot].arg.got) =>
        LET a == resp'[ReadSlot].arg
        IN  \A k \in 1..Len(a.orders) : a.orders[k] \in OwnedMatching(reqUser[ReadSlot], a.query)

\* GET /orders, countDocuments is answered: total counts exactly the
\* requester's orders that pass the filters
C30_TotalStep ==
    (pc[ReadSlot] = "query" /\ resp'[ReadSlot].code # 500
        /\ "count" \in resp'[ReadSlot].arg.got \ resp[ReadSlot].arg.got) =>
        LET a == resp'[ReadSlot].arg
        IN  a.total = Cardinality(OwnedMatching(reqUser[ReadSlot], a.query))

\* GET /orders, the aggregate and the answer: each count is the number of the
\* requester's orders of that status, whatever the filters were, so the
\* counts add up to the number of all the requester's orders
C30_CountStep ==
    (pc[ReadSlot] = "counts" /\ pc'[ReadSlot] = "done" /\ resp'[ReadSlot].code # 500) =>
        LET a == resp'[ReadSlot]
            u == reqUser[ReadSlot]
        IN  /\ a.code = 200 /\ a.arg = resp[ReadSlot].arg
            /\ \A st \in validStatuses :
                  a.statusCounts[st] =
                      Cardinality({i \in OwnedBy(u) : orders[i].status = st})
            /\ CountSum(a.statusCounts) = Cardinality(OwnedBy(u))

\* C30: the read routes never disclose another user's order: GET /orders/:id
\* answers with the order only to its owner and with 404 otherwise; every
\* order of a GET /orders page, and every order counted in total and in
\* statusCounts, is the requester's; statusCounts adds up to the number of all
\* the requester's orders, independent of the status and date filters
C30_ReadsOwnOrdersOnly ==
    [][C30_GetStep /\ C30_FindStep /\ C30_TotalStep /\ C30_CountStep]_vars

\* a filtered list for u1 was answered while u2 owns an order too: the filter
\* kept fewer orders than u1 owns and the counts still cover all of them
C30_Witness ==
    /\ pc[ReadSlot] = "done" /\ resp[ReadSlot].message = "orders"
    /\ reqUser[ReadSlot] = "u1"
    /\ resp[ReadSlot].arg.query.status = "shipped"
    /\ OwnedBy("u2") # {}
    /\ Len(resp[ReadSlot].arg.orders) >= 1
    /\ resp[ReadSlot].arg.total < Cardinality(OwnedBy("u1"))
    /\ CountSum(resp[ReadSlot].statusCounts) = Cardinality(OwnedBy("u1"))

\* an existing order of u2 was asked for by u1 and answered 404
C30_GetWitness ==
    /\ pc[ReadSlot] = "done" /\ resp[ReadSlot].code = 404
    /\ reqUser[ReadSlot] = "u1"
    /\ resp[ReadSlot].arg.id \in OwnedBy("u2")

====
